---- MODULE Spec2Model ----
(***************************************************************************)
(* MLStudio: the gradient-descent training loop (GradientDescent.fit,      *)
(* predict, score), the observer list it drives, the performance observer  *)
(* used for early stopping, and the data helpers shuffle_data and          *)
(* batch_iterator.                                                         *)
(*                                                                         *)
(* A sample is identified by the index of its row in the X (and of its     *)
(* element in the y) handed to fit, so X_train_ and y_train_ are sequences *)
(* of original indices.  Parameters are vectors over ThetaVals.            *)
(***************************************************************************)
EXTENDS Integers, Sequences, FiniteSets, TLC

(* ------------------------------ bounds --------------------------------- *)
MaxEpochs == 3
MaxSamples == 3
MaxBatchSize == 2
MaxFits == 2
MaxPatience == 1
MaxCost == 3

(* --------------------------- Python values ----------------------------- *)
\* Python's None where an integer may stand (batch_size, baseline, n_iter_).
None == -1
\* Columns of the design matrix: one feature plus the bias column.
n_columns == 2
ThetaVals == {0, 1}
ThetaMod == Cardinality(ThetaVals)
\* Feature values predict is called with.
PredictInputs == {0, 1}
\* epsilon as a fraction <<numerator, denominator>>.
Epsilons == {<<1, 4>>}
Metrics == {"train_cost", "val_cost", "train_score"}
\* The metrics for which "'score' in self.metric" holds.
ScoreMetrics == {"train_score", "val_score"}
\* The model's scorer, named by its `better` comparison; "none": scorer=None.
Scorers == {"none", "greater", "less"}

VARIABLES
    params,          \* the estimator's hyperparameters (get_params)
    dataset,         \* number of samples of the (X, y) the caller trains on
    attrs,           \* names of the instance attributes set so far (vars(self))
    _epoch, _batch, converged_, is_fitted_, _learning_rate,
    X_train_, y_train_, theta_, intercept_, coef_, n_iter_,
    _cbks,           \* ObserverList.observers: names in registration order
    es,              \* state of the early-stop performance observer
    pc,              \* position inside fit: "idle", "while", "for"
    it_i,            \* batch_iterator's loop variable i
    events,          \* notifications of the current fit, one record per call
    last_log,        \* the log handed to the observers with the last event
    fit_result,      \* how the last fit call ended
    fits,            \* number of fit calls so far
    y_pred,          \* the last predict or score call since the last fit
    heap             \* the array objects, where arrays are held by reference

vars == <<params, dataset, attrs, _epoch, _batch, converged_, is_fitted_,
          _learning_rate, X_train_, y_train_, theta_, intercept_, coef_,
          n_iter_, _cbks, es, pc, it_i, events, last_log, fit_result, fits,
          y_pred, heap>>

(* ------------------------------ helpers -------------------------------- *)
Abs(x) == IF x < 0 THEN -x ELSE x

Min(a, b) == IF a < b THEN a ELSE b

Range(s) == {s[i] : i \in 1..Len(s)}

\* X[i:j] of Python (0-based, end exclusive, clipped to the length).
Slice(s, i, j) == [k \in 1..(Min(j, Len(s)) - i) |-> s[i + k]]

\* The permutations of 1..n, each a sequence.
Perms(n) == {p \in [1..n -> 1..n] : \A i, j \in 1..n : p[i] = p[j] => i = j}

\* numpy's Generator.permutation(a) with drawn index permutation p: a[p].
Permutation(a, p) == [i \in 1..Len(a) |-> a[p[i]]]

\* dict.get(key): None for an absent key.
LogGet(log, key) == IF key \in DOMAIN log THEN log[key] ELSE None

(* --------------------- utils/data_manager.py --------------------------- *)
\* shuffle_data(X, y): p1 and p2 are the generator's first and second draw.
shuffle_data(X, y, p1, p2) == <<Permutation(X, p1), Permutation(y, p2)>>

\* np.arange(start, stop, step) for step > 0.
RECURSIVE arange(_, _, _)
arange(start, stop, step) ==
    IF start >= stop THEN <<>>
    ELSE <<start>> \o arange(start + step, stop, step)

\* batch_iterator yielding whole batches only (the trailing part dropped).
batch_iterator_whole_only(X, y, batch_size) ==
    LET n_samples == Len(X)
        bs == IF batch_size = None THEN n_samples ELSE batch_size
        starts == arange(0, n_samples - bs + 1, bs)
    IN  [k \in 1..Len(starts) |->
            <<Slice(X, starts[k], starts[k] + bs),
              Slice(y, starts[k], starts[k] + bs)>>]

\* batch_iterator starting at the second row.
batch_iterator_from_second_row(X, y, batch_size) ==
    LET n_samples == Len(X)
        bs == IF batch_size = None THEN n_samples ELSE batch_size
        starts == arange(1, n_samples, bs)
    IN  [k \in 1..Len(starts) |->
            <<Slice(X, starts[k], starts[k] + bs),
              Slice(y, starts[k], starts[k] + bs)>>]

\* batch_iterator(X, y, batch_size): the sequence of the batches it yields.
batch_iterator(X, y, batch_size) ==
    LET n_samples == Len(X)
        bs == IF batch_size = None THEN n_samples ELSE batch_size
        starts == arange(0, n_samples, bs)
    IN  [k \in 1..Len(starts) |->
            <<Slice(X, starts[k], starts[k] + bs),
              Slice(y, starts[k], starts[k] + bs)>>]

\* data_split without stratification or shuffling; test_size is a fraction
\* <<numerator, denominator>>.
data_split(X, y, test_size) ==
    LET split_i == Len(y) - ((Len(y) * test_size[1]) \div test_size[2])
    IN  [X_train |-> SubSeq(X, 1, split_i),
         X_test |-> SubSeq(X, split_i + 1, Len(X)),
         y_train |-> SubSeq(y, 1, split_i),
         y_test |-> SubSeq(y, split_i + 1, Len(y))]

(* ------------------- algorithm and optimizer strategy ------------------ *)
RECURSIVE Dot(_, _)
Dot(a, b) ==
    IF a = <<>> \/ b = <<>> THEN 0
    ELSE Head(a) * Head(b) + Dot(Tail(a), Tail(b))

\* algorithm.compute_gradient: a pure function of the batch and theta.
compute_gradient(X_batch, y_batch, theta) ==
    <<1, Len(X_batch) % ThetaMod>>

\* optimizer.update_parameters: a pure function returning a new vector.
update_parameters(theta, gradient, learning_rate) ==
    [i \in 1..Len(theta) |-> (theta[i] + learning_rate * gradient[i]) % ThetaMod]

\* algorithm.predict: a pure function of the input and theta.
algorithm_predict(X, theta) == (theta[1] + theta[2] * X) % ThetaMod

(* ------------------ supervised/observers/base.py ----------------------- *)
\* The loop "for observer in self.observers: observer.on_...(...)" of every
\* ObserverList notification method: the observers reached, in order, when
\* those of `raising` raise from their handler.
\* The notification loop walking the observers last to first.
RECURSIVE notify_reversed(_, _)
notify_reversed(observers, raising) ==
    IF observers = <<>> THEN <<>>
    ELSE IF observers[Len(observers)] \in raising
    THEN <<observers[Len(observers)]>>
    ELSE <<observers[Len(observers)]>>
            \o notify_reversed(SubSeq(observers, 1, Len(observers) - 1), raising)

RECURSIVE notify(_, _)
notify(observers, raising) ==
    IF observers = <<>> THEN <<>>
    ELSE IF Head(observers) \in raising THEN <<Head(observers)>>
    ELSE <<Head(observers)>> \o notify(Tail(observers), raising)

\* A notification call that catches what its observers raise.
notify_swallows(observers, raising) == FALSE

\* Whether the notification call propagates an exception.
notify_raises(observers, raising) == Range(observers) \cap raising # {}

\* PerformanceObserver state before any on_train_begin.
PerformanceObserverNew ==
    [baseline |-> None, iter_no_improvement |-> 0, stabilized |-> FALSE,
     better |-> "none", significant_improvement |-> FALSE, relative_change |-> <<0, 1>>,
     best_epoch |-> None, best_results |-> None, critical_points |-> <<>>,
     epoch_log |-> <<>>, performance_log |-> <<>>, baseline_log |-> <<>>,
     relative_change_log |-> <<>>, improvement_log |-> <<>>,
     iter_no_improvement_log |-> <<>>, stability_log |-> <<>>,
     best_epochs_log |-> <<>>]

\* on_train_begin accepting a score metric without a scorer.
on_train_begin_never_raises(p) == FALSE

\* PerformanceObserver.on_train_begin raises TypeError: the metric is a
\* score and the model has no scorer to take `better` from.
on_train_begin_raises(p) == p.metric \in ScoreMetrics /\ p.scorer = "none"

\* PerformanceObserver.on_train_begin up to the TypeError.
on_train_begin_raised(o) ==
    [o EXCEPT !.baseline = None, !.iter_no_improvement = 0,
              !.better = "none", !.stabilized = FALSE,
              !.significant_improvement = FALSE]

\* on_train_begin resetting the private variables and not the logs.
on_train_begin_keeps_logs(o, p) ==
    [o EXCEPT !.baseline = None, !.iter_no_improvement = 0,
              !.better = IF p.metric \in ScoreMetrics THEN p.scorer
                         ELSE "less",
              !.stabilized = FALSE, !.significant_improvement = FALSE]

\* PerformanceObserver.on_train_begin when it returns.
on_train_begin(o, p) ==
    [o EXCEPT !.baseline = None, !.iter_no_improvement = 0,
              !.better = IF p.metric \in ScoreMetrics THEN p.scorer
                         ELSE "less",
              !.stabilized = FALSE, !.significant_improvement = FALSE,
              !.epoch_log = <<>>, !.performance_log = <<>>,
              !.baseline_log = <<>>, !.relative_change_log = <<>>,
              !.improvement_log = <<>>, !.iter_no_improvement_log = <<>>,
              !.stability_log = <<>>, !.best_epochs_log = <<>>]

\* PerformanceObserver._update_log.
_update_log(o, metric, log) ==
    [o EXCEPT !.epoch_log = Append(@, LogGet(log, "epoch")),
              !.performance_log = Append(@, LogGet(log, metric)),
              !.baseline_log = Append(@, o.baseline),
              !.relative_change_log = Append(@, o.relative_change),
              !.improvement_log = Append(@, o.significant_improvement),
              !.iter_no_improvement_log = Append(@, o.iter_no_improvement),
              !.stability_log = Append(@, o.stabilized),
              !.best_epochs_log = Append(@, o.best_epoch)]

\* _metric_improved with the comparison turned around.
_metric_improved_reversed(o, current) ==
    IF o.better = "greater" THEN current < o.baseline
    ELSE current > o.baseline

\* PerformanceObserver._metric_improved: self._better(current, baseline).
_metric_improved(o, current) ==
    IF o.better = "greater" THEN current > o.baseline
    ELSE current < o.baseline

\* The quotient |current - baseline| / |baseline| as <<dividend, divisor>>.
relative_change(o, current) == <<Abs(current - o.baseline), Abs(o.baseline)>>

\* _significant_relative_change accepting a change equal to epsilon.
_significant_relative_change_or_equal(o, epsilon, current) ==
    relative_change(o, current)[1] * epsilon[2]
        >= epsilon[1] * relative_change(o, current)[2]

\* PerformanceObserver._significant_relative_change: quotient > epsilon.
_significant_relative_change(o, epsilon, current) ==
    relative_change(o, current)[1] * epsilon[2]
        > epsilon[1] * relative_change(o, current)[2]

\* _process_improvement without the reset of the stabilized flag.
_process_improvement_keeps_stabilized(o, current, log) ==
    [o EXCEPT !.iter_no_improvement = 0,
              !.baseline = current, !.best_epoch = LogGet(log, "epoch")]

\* _process_improvement without the reset of the counter.
_process_improvement_keeps_counter(o, current, log) ==
    [o EXCEPT !.stabilized = FALSE,
              !.baseline = current, !.best_epoch = LogGet(log, "epoch")]

\* _process_improvement without the update of the best epoch.
_process_improvement_keeps_best_epoch(o, current, log) ==
    [o EXCEPT !.iter_no_improvement = 0, !.stabilized = FALSE,
              !.baseline = current]

\* _process_improvement leaving the baseline alone after the first epoch.
_process_improvement_keeps_baseline(o, current, log) ==
    [o EXCEPT !.iter_no_improvement = 0, !.stabilized = FALSE,
              !.baseline = IF o.baseline = None THEN current ELSE o.baseline,
              !.best_epoch = LogGet(log, "epoch")]

\* PerformanceObserver._process_improvement.
_process_improvement(o, current, log) ==
    [o EXCEPT !.iter_no_improvement = 0, !.stabilized = FALSE,
              !.baseline = current, !.best_epoch = LogGet(log, "epoch")]

\* _process_no_improvement stabilizing one epoch late.
_process_no_improvement_late(o, patience) ==
    [o EXCEPT !.iter_no_improvement = @ + 1,
              !.stabilized = IF o.iter_no_improvement + 1 > patience
                             THEN TRUE ELSE @]

\* PerformanceObserver._process_no_improvement.
_process_no_improvement(o, patience) ==
    [o EXCEPT !.iter_no_improvement = @ + 1,
              !.stabilized = IF o.iter_no_improvement + 1 >= patience
                             THEN TRUE ELSE @]

\* _get_current_value raising for an absent key only.
_get_current_value_raises_when_absent(metric, log) ==
    LogGet(log, metric) = None

\* PerformanceObserver._get_current_value raises KeyError: "if not current".
_get_current_value_raises(metric, log) ==
    LogGet(log, metric) = None \/ LogGet(log, metric) = 0

\* PerformanceObserver.on_epoch_end when _get_current_value returns.
on_epoch_end(o, p, log) ==
    LET current == LogGet(log, p.metric)
        o0 == [o EXCEPT !.significant_improvement = FALSE,
                        !.relative_change = <<0, 1>>]
    IN  IF o0.baseline = None
        THEN _update_log(
                _process_improvement(
                    [o0 EXCEPT !.significant_improvement = TRUE], current, log),
                p.metric, log)
        ELSE LET improved == _metric_improved(o0, current)
                 o1 == IF improved
                       THEN [o0 EXCEPT !.relative_change =
                                            relative_change(o0, current)]
                       ELSE o0
                 significant == improved
                     /\ _significant_relative_change(o0, p.epsilon, current)
                 o2 == [o1 EXCEPT !.significant_improvement = significant]
             IN  _update_log(
                    IF significant
                    THEN _process_improvement(o2, current, log)
                    ELSE _process_no_improvement(o2, p.patience),
                    p.metric, log)

\* PerformanceObserver.on_epoch_end when _get_current_value raises.
on_epoch_end_raised(o) ==
    [o EXCEPT !.significant_improvement = FALSE, !.relative_change = <<0, 1>>]

\* PerformanceObserver.on_train_end: np.where(stability_log) mapped through
\* best_epochs_log.
RECURSIVE where_true(_, _)
where_true(flags, values) ==
    IF flags = <<>> THEN <<>>
    ELSE (IF Head(flags) THEN <<Head(values)>> ELSE <<>>)
            \o where_true(Tail(flags), Tail(values))

\* on_train_end keeping the positions in the stability log, not the best
\* epochs logged at them.
on_train_end_positions(o) ==
    [o EXCEPT !.best_results = o.best_epochs_log[Len(o.best_epochs_log)],
              !.critical_points = where_true(o.stability_log, o.epoch_log)]

\* on_train_end reporting the best epoch logged at the first epoch.
on_train_end_first_best_epoch(o) ==
    [o EXCEPT !.best_results = o.best_epochs_log[1],
              !.critical_points = where_true(o.stability_log, o.best_epochs_log)]

\* PerformanceObserver.on_train_end.
on_train_end(o) ==
    [o EXCEPT !.best_results = o.best_epochs_log[Len(o.best_epochs_log)],
              !.critical_points = where_true(o.stability_log, o.best_epochs_log)]

\* The early-stop observer's hook on the estimator: after its on_epoch_end
\* the estimator's converged_ is the observer's stabilized flag.
early_stop_converged(o) == o.stabilized

(* ----------------- supervised/estimator/gradient.py -------------------- *)
\* algorithm.compute_cost: a pure function of the data and theta.
compute_cost(X, y, theta) == (Dot(X, y) + theta[1] + 2 * theta[2]) % (MaxCost + 1)

\* scorer(y, y_pred) on the predictions for X.
scorer(X, y, theta) ==
    Dot(y, [i \in 1..Len(X) |-> algorithm_predict(X[i], theta)]) % (MaxCost + 1)

\* np.random.RandomState(seed).randn(n) for an integer seed.
randn(seed) == [i \in 1..n_columns |-> (seed + i) % ThetaMod]

\* Instance attributes whose name ends with "_": what sklearn's
\* check_is_fitted(self) looks for in vars(self).
TrailingUnderscore ==
    {"converged_", "is_fitted_", "X_train_", "X_val_", "y_train_", "y_val_",
     "theta_", "intercept_", "coef_", "n_iter_", "blackbox_"}

check_is_fitted(a) == a \cap TrailingUnderscore # {}

\* GradientDescent._init_callbacks: the observers in registration order.
_init_callbacks(p) ==
    <<"blackbox", "progress">>
        \o (IF p.early_stop THEN <<"early_stop">> ELSE <<>>)
        \o (IF p.gradient_check THEN <<"gradient_check">> ELSE <<>>)

\* The epoch's evaluation with the training cost and score only.
_evaluate_epoch_without_validation(log, p, X, y, Xv, yv, theta) ==
    LET train == [k \in {"train_cost", "train_score"} |->
                    IF k = "train_cost" THEN compute_cost(X, y, theta)
                    ELSE scorer(X, y, theta)]
    IN  log @@ train

\* GradientDescentRegressor._evaluate_epoch: the log with costs and scores.
_evaluate_epoch(log, p, X, y, Xv, yv, theta) ==
    LET train == [k \in {"train_cost", "train_score"} |->
                    IF k = "train_cost" THEN compute_cost(X, y, theta)
                    ELSE scorer(X, y, theta)]
        val == IF p.early_stop /\ p.val_size[1] # 0
               THEN [k \in {"val_cost", "val_score"} |->
                        IF k = "val_cost" THEN compute_cost(Xv, yv, theta)
                        ELSE scorer(Xv, yv, theta)]
               ELSE [k \in {} |-> 0]
    IN  log @@ train @@ val

EmptyLog == [k \in {} |-> 0]

Event(ev, arg, to) == [ev |-> ev, arg |-> arg, to |-> to]

\* No predict or score call since the last fit began.
NoCall == [call |-> "none", X |-> None, status |-> "none", value |-> None]

\* The loop guard with the bound test off by one.
loop_guard_off_by_one == _epoch <= params.epochs /\ ~converged_

\* The loop guard without the convergence test.
loop_guard_ignores_converged == _epoch < params.epochs

\* The loop guard of fit.
loop_guard == _epoch < params.epochs /\ ~converged_

\* The opening assignments without the reset of is_fitted_.
_begin_training_init_keeps_fitted ==
    /\ _epoch' = 0
    /\ _batch' = 0
    /\ converged_' = FALSE
    /\ UNCHANGED is_fitted_
    /\ _learning_rate' = params.learning_rate_0

\* The opening assignments without the reset of the epoch counter.
_begin_training_init_keeps_epoch ==
    /\ UNCHANGED _epoch
    /\ _batch' = 0
    /\ converged_' = FALSE
    /\ is_fitted_' = FALSE
    /\ _learning_rate' = params.learning_rate_0

\* The opening assignments without the reset of the batch counter.
_begin_training_init_keeps_batch ==
    /\ _epoch' = 0
    /\ UNCHANGED _batch
    /\ converged_' = FALSE
    /\ is_fitted_' = FALSE
    /\ _learning_rate' = params.learning_rate_0

\* The assignments that open _begin_training.
_begin_training_init ==
    /\ _epoch' = 0
    /\ _batch' = 0
    /\ converged_' = FALSE
    /\ is_fitted_' = FALSE
    /\ _learning_rate' = params.learning_rate_0

\* The batch notifications with _end_batch fired ahead of _begin_batch.
_batch_events_swapped(batch, cbks) ==
    <<Event("on_batch_end", batch, notify(cbks, {})),
      Event("on_batch_begin", batch, notify(cbks, {}))>>

\* _begin_batch and _end_batch: the two notifications around one update.
_batch_events(batch, cbks) ==
    <<Event("on_batch_begin", batch, notify(cbks, {})),
      Event("on_batch_end", batch, notify(cbks, {}))>>

\* GradientDescentRegressor._prepare_data on a data set of n samples: the
\* training set and, with an early-stop observer of non-zero val_size, the
\* validation set.
_prepare_regression_data(p, n) ==
    LET all == [i \in 1..n |-> i]
    IN  IF p.early_stop /\ p.val_size[1] # 0
        THEN data_split(all, all, p.val_size)
        ELSE [X_train |-> all, X_test |-> <<>>,
              y_train |-> all, y_test |-> <<>>]

\* The attributes X_val_ and y_val_, which no step changes after
\* _prepare_data.
X_val_ == _prepare_regression_data(params, dataset).X_test

y_val_ == _prepare_regression_data(params, dataset).y_test

\* fit entering _begin_training with inputs X, y.  xy_ok: X and y have the
\* same number of samples; theta0: the draw of rng.randn when unseeded.
_begin_training(xy_ok, theta0) ==
    /\ pc = "idle"
    /\ fits < MaxFits
    /\ fits' = fits + 1
    /\ _begin_training_init
    /\ it_i' = 0
    /\ y_pred' = NoCall
    /\ UNCHANGED <<heap, params, dataset, intercept_, coef_, n_iter_>>
    /\ LET base == attrs \cup {"_epoch", "_batch", "converged_", "is_fitted_",
                               "_learning_rate", "X_train_", "X_val_",
                               "y_train_", "y_val_"}
           cbks == _init_callbacks(params)
       IN  IF ~xy_ok
           THEN \* _prepare_data: check_X_y raises
                /\ X_train_' = <<>> /\ y_train_' = <<>>
                /\ attrs' = base
                /\ pc' = "idle" /\ fit_result' = "ValueError"
                /\ events' = <<>>
                /\ UNCHANGED <<theta_, _cbks, es, last_log>>
           ELSE IF params.theta_init # <<>> /\ Len(params.theta_init) # n_columns
           THEN \* _init_weights: the shape assertion fails
                /\ X_train_' = _prepare_regression_data(params, dataset).X_train
                /\ y_train_' = _prepare_regression_data(params, dataset).y_train
                /\ attrs' = base
                /\ pc' = "idle" /\ fit_result' = "AssertionError"
                /\ events' = <<>>
                /\ UNCHANGED <<theta_, _cbks, es, last_log>>
           ELSE /\ X_train_' = _prepare_regression_data(params, dataset).X_train
                /\ y_train_' = _prepare_regression_data(params, dataset).y_train
                /\ theta_' = IF params.theta_init # <<>> THEN params.theta_init
                             ELSE IF params.random_state # None
                                  THEN randn(params.random_state)
                                  ELSE theta0
                /\ _cbks' = cbks
                /\ attrs' = base \cup {"theta_", "_cbks", "blackbox_", "_progress"}
                /\ last_log' = [k \in {"X", "y"} |-> dataset]
                /\ IF notify_raises(cbks, IF on_train_begin_raises(params)
                                          THEN {"early_stop"} ELSE {})
                   THEN \* the early-stop observer's on_train_begin raises
                        /\ es' = on_train_begin_raised(es)
                        /\ events' = <<Event("on_train_begin", None,
                                            notify(cbks, {"early_stop"}))>>
                        /\ pc' = "idle" /\ fit_result' = "TypeError"
                   ELSE /\ es' = IF "early_stop" \in Range(cbks)
                                 THEN on_train_begin(es, params) ELSE es
                        /\ events' = <<Event("on_train_begin", None,
                                            notify(cbks, {}))>>
                        /\ pc' = "while" /\ fit_result' = "running"

\* One pass of the while test that succeeds, then _begin_epoch.  p1, p2:
\* the two permutations the generator of shuffle_data draws.
_begin_epoch ==
    /\ pc = "while"
    /\ loop_guard
    /\ _epoch' = _epoch + 1
    /\ \E p1, p2 \in Perms(Len(X_train_)) :
            /\ X_train_' = shuffle_data(X_train_, y_train_, p1, p2)[1]
            /\ y_train_' = shuffle_data(X_train_, y_train_, p1, p2)[2]
    /\ events' = Append(events,
                    Event("on_epoch_begin", _epoch + 1, notify(_cbks, {})))
    /\ last_log' = EmptyLog
    /\ pc' = "for"
    /\ it_i' = 0
    /\ UNCHANGED <<heap, params, dataset, attrs, _batch, converged_, is_fitted_,
                   _learning_rate, theta_, intercept_, coef_, n_iter_, _cbks,
                   es, fit_result, fits, y_pred>>

\* One iteration of the for loop over batch_iterator: _begin_batch, the
\* parameter update and _end_batch.
fit_batch ==
    /\ pc = "for"
    /\ it_i < Len(batch_iterator(X_train_, y_train_, params.batch_size))
    /\ LET b == batch_iterator(X_train_, y_train_, params.batch_size)[it_i + 1]
           X_batch == b[1]
           y_batch == b[2]
           J == compute_cost(X_batch, y_batch, theta_)
           batch_log == [batch |-> _batch + 1, batch_size |-> Len(X_batch),
                         theta |-> theta_, train_cost |-> J]
           gradient == compute_gradient(X_batch, y_batch, theta_)
       IN  /\ _batch' = _batch + 1
           /\ theta_' = update_parameters(theta_, gradient, _learning_rate)
           /\ events' = events \o _batch_events(_batch + 1, _cbks)
           /\ last_log' = batch_log
    /\ it_i' = it_i + 1
    /\ UNCHANGED <<heap, params, dataset, attrs, _epoch, converged_, is_fitted_,
                   _learning_rate, X_train_, y_train_, intercept_, coef_,
                   n_iter_, _cbks, es, pc, fit_result, fits, y_pred>>

\* The for loop is exhausted: _end_epoch.
_end_epoch ==
    /\ pc = "for"
    /\ it_i >= Len(batch_iterator(X_train_, y_train_, params.batch_size))
    /\ LET log0 == [epoch |-> _epoch, learning_rate |-> _learning_rate,
                    theta |-> theta_]
           elog == _evaluate_epoch(log0, params, X_train_, y_train_,
                                   X_val_, y_val_, theta_)
           watched == "early_stop" \in Range(_cbks)
           raising == IF watched /\ _get_current_value_raises(params.metric, elog)
                      THEN {"early_stop"} ELSE {}
       IN  /\ events' = Append(events,
                    Event("on_epoch_end", _epoch, notify(_cbks, raising)))
           /\ last_log' = elog
           /\ IF notify_raises(_cbks, raising)
              THEN /\ es' = on_epoch_end_raised(es)
                   /\ pc' = "idle" /\ fit_result' = "KeyError"
                   /\ UNCHANGED converged_
              ELSE /\ es' = IF watched THEN on_epoch_end(es, params, elog) ELSE es
                   /\ converged_' = IF watched
                                    THEN early_stop_converged(
                                            on_epoch_end(es, params, elog))
                                    ELSE converged_
                   /\ pc' = "while" /\ UNCHANGED fit_result
    /\ UNCHANGED <<heap, params, dataset, attrs, _epoch, _batch, is_fitted_,
                   _learning_rate, X_train_, y_train_, theta_, intercept_,
                   coef_, n_iter_, _cbks, it_i, fits, y_pred>>

\* _end_training without the on_train_end notification.
_end_training_without_on_train_end ==
    /\ pc = "while"
    /\ ~loop_guard
    /\ intercept_' = theta_[1]
    /\ coef_' = Tail(theta_)
    /\ n_iter_' = _epoch
    /\ is_fitted_' = TRUE
    /\ attrs' = attrs \cup {"intercept_", "coef_", "n_iter_"}
    /\ pc' = "idle"
    /\ fit_result' = "ok"
    /\ UNCHANGED <<heap, params, dataset, _epoch, _batch, converged_,
                   _learning_rate, X_train_, y_train_, theta_, _cbks, es,
                   it_i, events, last_log, fits, y_pred>>

\* The while test fails: _end_training, and fit returns.
_end_training ==
    /\ pc = "while"
    /\ ~loop_guard
    /\ events' = Append(events,
                    Event("on_train_end", None, notify(_cbks, {})))
    /\ last_log' = EmptyLog
    /\ es' = IF "early_stop" \in Range(_cbks) THEN on_train_end(es) ELSE es
    /\ intercept_' = theta_[1]
    /\ coef_' = Tail(theta_)
    /\ n_iter_' = _epoch
    /\ is_fitted_' = TRUE
    /\ attrs' = attrs \cup {"intercept_", "coef_", "n_iter_"}
    /\ pc' = "idle"
    /\ fit_result' = "ok"
    /\ UNCHANGED <<heap,
                   params, dataset, _epoch, _batch, converged_, _learning_rate,
                   X_train_, y_train_, theta_, _cbks, it_i, fits, y_pred>>

\* What predict(X) returns or raises.
predict_outcome(call, a, X, theta) ==
    IF ~check_is_fitted(a)
    THEN [call |-> call, X |-> X, status |-> "NotFittedError", value |-> None]
    ELSE IF "theta_" \notin a
    THEN [call |-> call, X |-> X, status |-> "AttributeError", value |-> None]
    ELSE [call |-> call, X |-> X, status |-> "ok",
          value |-> algorithm_predict(X, theta)]

\* predict stepping the parameters as a training batch does.
predict_effects_updates_theta ==
    /\ theta_' = IF theta_ = <<>> THEN theta_
                 ELSE update_parameters(theta_, <<1, 0>>, 1)
    /\ UNCHANGED <<heap, params, dataset, attrs, _epoch, _batch, converged_,
                   is_fitted_, _learning_rate, X_train_, y_train_,
                   intercept_, coef_, n_iter_, _cbks, es, pc, it_i, events,
                   last_log, fit_result, fits>>

\* predict assigns no attribute of the estimator and calls no observer.
predict_effects ==
    UNCHANGED <<heap, params, dataset, attrs, _epoch, _batch, converged_,
                is_fitted_, _learning_rate, X_train_, y_train_, theta_,
                intercept_, coef_, n_iter_, _cbks, es, pc, it_i, events,
                last_log, fit_result, fits>>

\* predict(X) outside fit.
predict(X) ==
    /\ pc = "idle"
    /\ y_pred' = predict_outcome("predict", attrs, X, theta_)
    /\ predict_effects

\* score(X, y) outside fit: predict, then the scorer on its result.
score(X) ==
    /\ pc = "idle"
    /\ y_pred' = predict_outcome("score", attrs, X, theta_)
    /\ predict_effects

(* --------------------------- specification ----------------------------- *)
\* The hyperparameter settings explored: the estimator's constructor
\* arguments and those of the early-stop observer injected into it.
ThetaInits == {<<>>, <<0, 0>>, <<0>>}

Params ==
    {p \in [learning_rate_0 : {1},
            batch_size : {None} \cup 1..MaxBatchSize,
            theta_init : ThetaInits,
            epochs : 1..MaxEpochs,
            early_stop : BOOLEAN,
            gradient_check : BOOLEAN,
            random_state : {None, 0},
            metric : Metrics,
            epsilon : Epsilons,
            patience : 1..MaxPatience,
            val_size : {<<0, 1>>, <<1, 2>>},
            scorer : {"none", "greater"}] :
        /\ (p.theta_init # <<>> => p.random_state = None)
        \* theta_init, random_state and gradient_check are varied on
        \* one-epoch full-batch runs only.
        /\ (p.theta_init # <<0, 0>> \/ p.gradient_check
                => p.epochs = 1 /\ p.batch_size = None)
        /\ (~p.early_stop => /\ p.metric = "train_cost"
                             /\ p.patience = 1
                             /\ p.epsilon = <<1, 4>>)
        \* scorer=None is explored where the early-stop observer reads it;
        \* a score metric with a scorer on full-batch runs from theta_init.
        /\ (p.scorer = "none" => p.early_stop /\ p.metric = "train_score")
        \* a validation set is split off on full-batch runs from theta_init
        \* that monitor a cost.
        /\ (p.val_size[1] # 0 => /\ p.early_stop
                                 /\ p.batch_size = None
                                 /\ p.theta_init = <<0, 0>>
                                 /\ ~p.gradient_check
                                 /\ p.scorer = "greater"
                                 /\ p.metric \in {"train_cost", "val_cost"})
        /\ (p.metric = "train_score" /\ p.scorer # "none"
                => p.batch_size = None /\ p.theta_init = <<0, 0>>)}

Init ==
    /\ params \in Params
    /\ dataset \in 1..MaxSamples
    \* The orders of a data set grow factorially with its size: data sets
    \* of more than two samples are trained with the two default observers
    \* and a given theta_init, for at most two epochs (three samples) or
    \* one epoch (more).
    /\ (dataset > 2 =>
            /\ ~params.early_stop
            /\ ~params.gradient_check
            /\ params.theta_init = <<0, 0>>
            /\ params.epochs <= (IF dataset > 3 THEN 1 ELSE 2))
    /\ attrs = {}
    /\ _epoch = 0 /\ _batch = 0
    /\ converged_ = FALSE /\ is_fitted_ = FALSE
    /\ _learning_rate = 0
    /\ X_train_ = <<>> /\ y_train_ = <<>>
    /\ theta_ = <<>> /\ intercept_ = None /\ coef_ = <<>>
    /\ n_iter_ = None
    /\ _cbks = <<>>
    /\ es = PerformanceObserverNew
    /\ pc = "idle"
    /\ it_i = 0
    /\ events = <<>>
    /\ last_log = EmptyLog
    /\ fit_result = "none"
    /\ fits = 0
    /\ y_pred = NoCall
    /\ heap = <<>>

Next ==
    \/ \E xy_ok \in BOOLEAN, theta0 \in [1..n_columns -> ThetaVals] :
            _begin_training(xy_ok, theta0)
    \/ _begin_epoch
    \/ fit_batch
    \/ _end_epoch
    \/ _end_training
    \/ \E X \in PredictInputs : predict(X)
    \/ \E X \in PredictInputs : score(X)

Spec == Init /\ [][Next]_vars

\* fit runs on the calling thread without suspension points: once begun,
\* each step of its loop that can be taken is taken.  The data sets are
\* those of at most MaxBatchSize samples.
FairInit == Init /\ dataset <= MaxBatchSize

FairSpec ==
    /\ FairInit /\ [][Next]_vars
    /\ WF_vars(_begin_epoch)
    /\ WF_vars(fit_batch)
    /\ WF_vars(_end_epoch)
    /\ WF_vars(_end_training)

(* ------------- the performance observer on given epoch logs ------------ *)
\* epsilon of the observer, as fractions.
MonitorEpsilons == {<<1, 4>>, <<1, 3>>}

\* The metric values an epoch log is given; None: the key is absent.
MetricValues == {None} \cup 0..MaxCost

\* The observer's settings.  early_stop: the observer is the estimator's
\* early-stop observer, so the loop ends once it has stabilized; otherwise
\* its handlers are driven for `epochs` epochs whatever it reports.
MonitorParams ==
    {p \in [learning_rate_0 : {1},
            batch_size : {None},
            theta_init : {<<0, 0>>},
            epochs : {MaxEpochs + 1},
            early_stop : BOOLEAN,
            gradient_check : {FALSE},
            random_state : {None},
            metric : {"train_cost", "train_score", "theta", "gradient"},
            epsilon : MonitorEpsilons,
            patience : 1..(MaxPatience + 1),
            val_size : {<<0, 1>>},
            scorer : {"greater", "less"}] :
        p.metric \notin ScoreMetrics => p.scorer = "greater"}

MonitorInit ==
    /\ params \in MonitorParams
    /\ dataset = 1
    /\ attrs = {}
    /\ _epoch = 0 /\ _batch = 0
    /\ converged_ = FALSE /\ is_fitted_ = FALSE
    /\ _learning_rate = 0
    /\ X_train_ = <<>> /\ y_train_ = <<>>
    /\ theta_ = <<>> /\ intercept_ = None /\ coef_ = <<>>
    /\ n_iter_ = None
    /\ _cbks = <<>>
    /\ es = PerformanceObserverNew
    /\ pc = "idle"
    /\ it_i = 0
    /\ events = <<>>
    /\ last_log = EmptyLog
    /\ fit_result = "none"
    /\ fits = 0
    /\ y_pred = NoCall
    /\ heap = <<>>

\* The start of a run: on_train_begin reaches the observer.
monitor_train_begin ==
    /\ pc = "idle"
    /\ fits = 0
    /\ fits' = 1
    /\ _epoch' = 0
    /\ converged_' = FALSE
    /\ es' = on_train_begin(es, params)
    /\ last_log' = EmptyLog
    /\ pc' = "while" /\ fit_result' = "running"
    /\ UNCHANGED <<heap,
                   params, dataset, attrs, _batch, is_fitted_, _learning_rate,
                   X_train_, y_train_, theta_, intercept_, coef_, n_iter_,
                   _cbks, it_i, events, y_pred>>

\* One epoch of the loop: on_epoch_end reaches the observer with a log that
\* holds the epoch number and, unless v is None, the value v of the metric.
monitor_epoch_end(v) ==
    /\ pc = "while"
    /\ loop_guard
    /\ _epoch' = _epoch + 1
    /\ LET elog == IF v = None THEN [k \in {"epoch"} |-> _epoch + 1]
                   ELSE [k \in {"epoch", params.metric} |->
                            IF k = "epoch" THEN _epoch + 1 ELSE v]
       IN  /\ last_log' = elog
           /\ IF _get_current_value_raises(params.metric, elog)
              THEN /\ es' = on_epoch_end_raised(es)
                   /\ pc' = "idle" /\ fit_result' = "KeyError"
                   /\ UNCHANGED converged_
              ELSE /\ es' = on_epoch_end(es, params, elog)
                   /\ converged_' =
                        IF params.early_stop
                        THEN early_stop_converged(on_epoch_end(es, params, elog))
                        ELSE converged_
                   /\ UNCHANGED <<pc, fit_result>>
    /\ UNCHANGED <<heap,
                   params, dataset, attrs, _batch, is_fitted_, _learning_rate,
                   X_train_, y_train_, theta_, intercept_, coef_, n_iter_,
                   _cbks, it_i, events, fits, y_pred>>

\* The end of a run: on_train_end reaches the observer.
monitor_train_end ==
    /\ pc = "while"
    /\ ~loop_guard
    /\ es' = on_train_end(es)
    /\ n_iter_' = _epoch
    /\ pc' = "idle" /\ fit_result' = "ok"
    /\ UNCHANGED <<heap, params, dataset, attrs, _epoch, _batch, converged_,
                   is_fitted_, _learning_rate, X_train_, y_train_, theta_,
                   intercept_, coef_, _cbks, it_i, events, last_log, fits,
                   y_pred>>

MonitorNext ==
    \/ monitor_train_begin
    \/ \E v \in MetricValues : monitor_epoch_end(v)
    \/ monitor_train_end

MonitorSpec == MonitorInit /\ [][MonitorNext]_vars

(* ------------- the initial weights of the three kinds of fit ----------- *)
\* Bounds of the data the weights are initialised for.
MaxFeatures == 2
MaxClasses == 3

\* An ndarray is a function from index tuples to values; its shape is read
\* off its index set.
Indices(shp) ==
    IF Len(shp) = 1 THEN {<<i>> : i \in 1..shp[1]}
    ELSE {<<i, j>> : i \in 1..shp[1], j \in 1..shp[2]}

full(shp, v) == [ix \in Indices(shp) |-> v]

ndim(a) == Len(CHOOSE ix \in DOMAIN a : TRUE)

shape(a) == [d \in 1..ndim(a) |-> Cardinality({ix[d] : ix \in DOMAIN a})]

unique(y) == {y[ix] : ix \in DOMAIN y}

\* np.insert(X, 0, 1.0, axis=1): the design matrix.
insert_ones(X) ==
    [ix \in Indices(<<shape(X)[1], shape(X)[2] + 1>>) |->
        IF ix[2] = 1 THEN 1 ELSE X[<<ix[1], ix[2] - 1>>]]

\* LabelBinarizer().fit_transform(y): one column per class in sorted
\* order, a single column when there are fewer than three classes.
LabelBinarizer_fit_transform(y) ==
    LET classes == unique(y)
        k == Cardinality(classes)
        n == shape(y)[1]
        rank(c) == Cardinality({d \in classes : d <= c})
    IN  IF k <= 2
        THEN [ix \in Indices(<<n, 1>>) |->
                IF k = 2 /\ rank(y[<<ix[1]>>]) = 2 THEN 1 ELSE 0]
        ELSE [ix \in Indices(<<n, k>>) |->
                IF rank(y[<<ix[1]>>]) = ix[2] THEN 1 ELSE 0]

\* _prepare_data of the estimator p: the training arrays X_train_, y_train_.
_prepare_data(p, X, y) ==
    [X |-> insert_ones(X),
     y |-> IF p.estimator = "classifier" /\ Cardinality(unique(y)) # 2
           THEN LabelBinarizer_fit_transform(y) ELSE y]

\* np.random.RandomState(seed).randn(*shp).
randn_shape(seed, shp) ==
    [ix \in Indices(shp) |-> (seed + ix[1] + ix[Len(shp)]) % ThetaMod]

\* The weights of the given shape: theta_init when it has that shape, a
\* draw when there is none, and a failed assertion otherwise.
_init_weights_of_shape(p, shp, seed) ==
    IF p.theta_init # <<>>
    THEN [ok |-> shape(p.theta_init) = shp, theta |-> p.theta_init]
    ELSE [ok |-> TRUE,
          theta |-> randn_shape(IF p.random_state # None THEN p.random_state
                                ELSE seed, shp)]

\* The classifier's weights always initialised as for two classes.
_init_weights_always_binary(p, X, y, seed) ==
    _init_weights_of_shape(p, <<shape(X)[2]>>, seed)

\* _init_weights of the regressor and of the classifier; seed: the entropy
\* RandomState draws when random_state is None.
_init_weights(p, X, y, seed) ==
    IF p.estimator = "regressor" \/ ndim(y) = 1
    THEN _init_weights_of_shape(p, <<shape(X)[2]>>, seed)
    ELSE _init_weights_of_shape(p, <<shape(X)[2], shape(y)[2]>>, seed)

\* The shapes a caller may give theta_init.
ThetaShapes ==
    {<<a>> : a \in 1..(MaxFeatures + 1)}
        \cup {<<a, b>> : a \in 1..(MaxFeatures + 1), b \in 1..MaxClasses}

WeightsParams ==
    [estimator : {"regressor", "classifier"},
     learning_rate_0 : {1},
     theta_init : {<<>>} \cup {full(shp, 0) : shp \in ThetaShapes},
     early_stop : {FALSE},
     gradient_check : {FALSE},
     random_state : {None, 0}]

\* The data sets: X of n samples and f features, y of n labels.
WeightsData ==
    UNION {[X : {full(<<n, f>>, 0)}, y : [Indices(<<n>>) -> 0..(MaxClasses - 1)]] :
            n \in 1..MaxSamples, f \in 1..MaxFeatures}

WeightsInit ==
    /\ params \in WeightsParams
    /\ dataset \in WeightsData
    /\ attrs = {}
    /\ _epoch = 0 /\ _batch = 0
    /\ converged_ = FALSE /\ is_fitted_ = FALSE
    /\ _learning_rate = 0
    /\ X_train_ = <<>> /\ y_train_ = <<>>
    /\ theta_ = <<>> /\ intercept_ = None /\ coef_ = <<>>
    /\ n_iter_ = None
    /\ _cbks = <<>>
    /\ es = PerformanceObserverNew
    /\ pc = "idle"
    /\ it_i = 0
    /\ events = <<>>
    /\ last_log = EmptyLog
    /\ fit_result = "none"
    /\ fits = 0
    /\ y_pred = NoCall
    /\ heap = <<>>

\* fit up to the on_train_begin notification.
weights_begin_training(seed) ==
    /\ pc = "idle"
    /\ fits = 0
    /\ fits' = 1
    /\ _begin_training_init
    /\ LET d == _prepare_data(params, dataset.X, dataset.y)
           w == _init_weights(params, d.X, d.y, seed)
           cbks == _init_callbacks(params)
       IN  /\ X_train_' = d.X
           /\ y_train_' = d.y
           /\ IF ~w.ok
              THEN /\ pc' = "idle" /\ fit_result' = "AssertionError"
                   /\ UNCHANGED <<theta_, _cbks, events>>
              ELSE /\ theta_' = w.theta
                   /\ _cbks' = cbks
                   /\ events' = <<Event("on_train_begin", None,
                                       notify(cbks, {}))>>
                   /\ pc' = "while" /\ fit_result' = "running"
    /\ UNCHANGED <<heap, params, dataset, attrs, intercept_, coef_, n_iter_, es,
                   it_i, last_log, y_pred>>

\* set_params(theta_init=...) on an estimator that is not training.
weights_set_params(theta0) ==
    /\ pc = "idle"
    /\ fits = 0
    /\ params.theta_init = <<>>
    /\ params.random_state = None
    /\ params' = [params EXCEPT !.theta_init = theta0]
    /\ UNCHANGED <<heap, dataset, attrs, _epoch, _batch, converged_, is_fitted_,
                   _learning_rate, X_train_, y_train_, theta_, intercept_,
                   coef_, n_iter_, _cbks, es, pc, it_i, events, last_log,
                   fit_result, fits, y_pred>>

WeightsNext ==
    \/ \E seed \in 0..1 : weights_begin_training(seed)
    \/ \E shp \in ThetaShapes : weights_set_params(full(shp, 1))

WeightsSpec == WeightsInit /\ [][WeightsNext]_vars

(* ------------------ the arrays of the loop, by reference --------------- *)
\* heap[r] is the value of the array object r; a name bound to an array
\* holds its reference r.

\* The array itself where a copy is expected.
ndarray_alias(h, r) == [heap |-> h, ref |-> r]

\* ndarray.copy(): a new object with the value of r.
ndarray_copy(h, r) == [heap |-> Append(h, h[r]), ref |-> Len(h) + 1]

\* optimizer.update_parameters on the object r: the updated parameters are
\* written into r or returned as a new object, as the optimizer chooses.
optimizer_update_parameters(h, r, gradient, learning_rate, inplace) ==
    LET v == update_parameters(h[r], gradient, learning_rate)
    IN  IF inplace THEN [heap |-> [h EXCEPT ![r] = v], ref |-> r]
        ELSE [heap |-> Append(h, v), ref |-> Len(h) + 1]

\* A log kept by an observer; logged: the value of its theta when built.
KeptLog(n, r, h) == [n |-> n, theta |-> r, logged |-> h[r]]

MemoryParams ==
    [learning_rate_0 : {1},
     batch_size : {None, 1},
     theta_init : {<<>>, <<0, 0>>},
     epochs : 1..MaxEpochs,
     early_stop : {FALSE},
     gradient_check : {FALSE},
     random_state : {None},
     inplace : BOOLEAN]

MemoryInit ==
    /\ params \in MemoryParams
    /\ dataset \in 1..MaxBatchSize
    /\ attrs = {}
    /\ _epoch = 0 /\ _batch = 0
    /\ converged_ = FALSE /\ is_fitted_ = FALSE
    /\ _learning_rate = 0
    /\ X_train_ = <<>> /\ y_train_ = <<>>
    /\ theta_ = None /\ intercept_ = None /\ coef_ = <<>>
    /\ n_iter_ = None
    /\ _cbks = <<>>
    /\ es = PerformanceObserverNew
    /\ pc = "idle"
    /\ it_i = 0
    /\ events = <<>>
    /\ last_log = EmptyLog
    /\ fit_result = "none"
    /\ fits = 0
    /\ y_pred = NoCall
    /\ heap = <<>>

\* _begin_training: theta_ is bound to the theta_init object or to a new
\* array drawn by rng.randn.
memory_begin_training(theta0) ==
    /\ pc = "idle"
    /\ fits = 0
    /\ fits' = 1
    /\ _begin_training_init
    /\ X_train_' = [i \in 1..dataset |-> i]
    /\ y_train_' = [i \in 1..dataset |-> i]
    /\ heap' = <<IF params.theta_init # <<>> THEN params.theta_init ELSE theta0>>
    /\ theta_' = 1
    /\ _cbks' = _init_callbacks(params)
    /\ events' = <<>>
    /\ pc' = "while" /\ fit_result' = "running"
    /\ UNCHANGED <<params, dataset, attrs, intercept_, coef_, n_iter_, es,
                   it_i, last_log, y_pred>>

memory_begin_epoch ==
    /\ pc = "while"
    /\ loop_guard
    /\ _epoch' = _epoch + 1
    /\ pc' = "for"
    /\ it_i' = 0
    /\ UNCHANGED <<heap, params, dataset, attrs, _batch, converged_,
                   is_fitted_, _learning_rate, X_train_, y_train_, theta_,
                   intercept_, coef_, n_iter_, _cbks, es, events, last_log,
                   fit_result, fits, y_pred>>

\* One iteration of the for loop: the batch log is built with a copy of
\* theta_, the parameters are updated, and on_batch_end hands the log to
\* the observers, which keep it.
memory_fit_batch ==
    /\ pc = "for"
    /\ it_i < Len(batch_iterator(X_train_, y_train_, params.batch_size))
    /\ LET b == batch_iterator(X_train_, y_train_, params.batch_size)[it_i + 1]
           c == ndarray_copy(heap, theta_)
           gradient == compute_gradient(b[1], b[2], heap[theta_])
           u == optimizer_update_parameters(c.heap, theta_, gradient,
                                            _learning_rate, params.inplace)
       IN  /\ _batch' = _batch + 1
           /\ heap' = u.heap
           /\ theta_' = u.ref
           /\ events' = Append(events,
                    Event("on_batch_end", KeptLog(_batch + 1, c.ref, c.heap),
                          notify(_cbks, {})))
    /\ it_i' = it_i + 1
    /\ UNCHANGED <<params, dataset, attrs, _epoch, converged_, is_fitted_,
                   _learning_rate, X_train_, y_train_, intercept_, coef_,
                   n_iter_, _cbks, es, pc, last_log, fit_result, fits, y_pred>>

\* _end_epoch: the epoch log is built with a copy of theta_.
memory_end_epoch ==
    /\ pc = "for"
    /\ it_i >= Len(batch_iterator(X_train_, y_train_, params.batch_size))
    /\ LET c == ndarray_copy(heap, theta_)
       IN  /\ heap' = c.heap
           /\ events' = Append(events,
                    Event("on_epoch_end", KeptLog(_epoch, c.ref, c.heap),
                          notify(_cbks, {})))
    /\ pc' = "while"
    /\ UNCHANGED <<params, dataset, attrs, _epoch, _batch, converged_,
                   is_fitted_, _learning_rate, X_train_, y_train_, theta_,
                   intercept_, coef_, n_iter_, _cbks, es, it_i, last_log,
                   fit_result, fits, y_pred>>

memory_end_training ==
    /\ pc = "while"
    /\ ~loop_guard
    /\ n_iter_' = _epoch
    /\ is_fitted_' = TRUE
    /\ pc' = "idle" /\ fit_result' = "ok"
    /\ UNCHANGED <<heap, params, dataset, attrs, _epoch, _batch, converged_,
                   _learning_rate, X_train_, y_train_, theta_, intercept_,
                   coef_, _cbks, es, it_i, events, last_log, fits, y_pred>>

MemoryNext ==
    \/ \E theta0 \in [1..n_columns -> ThetaVals] : memory_begin_training(theta0)
    \/ memory_begin_epoch
    \/ memory_fit_batch
    \/ memory_end_epoch
    \/ memory_end_training

MemorySpec == MemoryInit /\ [][MemoryNext]_vars

(* ---------------- two runs of fit on the same estimator ---------------- *)
\* The for loop of fit over the batches of one epoch: theta_ after the
\* update of every batch.
RECURSIVE fit_batches(_, _, _)
fit_batches(batches, theta, learning_rate) ==
    IF batches = <<>> THEN theta
    ELSE fit_batches(Tail(batches),
            update_parameters(theta,
                compute_gradient(Head(batches)[1], Head(batches)[2], theta),
                learning_rate),
            learning_rate)

\* The shuffle of _begin_epoch: shuffle_data is called without a
\* random_state, whatever the estimator's.
_begin_epoch_shuffle(X, y, random_state, p1, p2) == shuffle_data(X, y, p1, p2)

\* What a run leaves on record at a step: the run, the epoch, the order of
\* the training data and the parameters.
RunRecord == [run |-> fits, epoch |-> _epoch', X |-> X_train_',
              y |-> y_train_', theta |-> theta_']

ReproParams ==
    {p \in [learning_rate_0 : {1},
            batch_size : {None, 1},
            theta_init : {<<>>, <<0, 0>>},
            epochs : 1..2,
            early_stop : {FALSE},
            gradient_check : {FALSE},
            random_state : {None, 0}] :
        p.theta_init # <<>> => p.random_state = None}

ReproInit ==
    /\ params \in ReproParams
    /\ dataset \in 1..MaxBatchSize
    /\ (dataset > 2 => params.epochs = 1)
    /\ attrs = {}
    /\ _epoch = 0 /\ _batch = 0
    /\ converged_ = FALSE /\ is_fitted_ = FALSE
    /\ _learning_rate = 0
    /\ X_train_ = <<>> /\ y_train_ = <<>>
    /\ theta_ = <<>> /\ intercept_ = None /\ coef_ = <<>>
    /\ n_iter_ = None
    /\ _cbks = <<>>
    /\ es = PerformanceObserverNew
    /\ pc = "idle"
    /\ it_i = 0
    /\ events = <<>>
    /\ last_log = EmptyLog
    /\ fit_result = "none"
    /\ fits = 1
    /\ y_pred = NoCall
    /\ heap = <<>>

\* _begin_training of run `fits`; theta0: the draw of an unseeded rng.randn.
repro_begin_training(theta0) ==
    /\ pc = "idle"
    /\ fits <= 2
    /\ _begin_training_init
    /\ X_train_' = [i \in 1..dataset |-> i]
    /\ y_train_' = [i \in 1..dataset |-> i]
    /\ theta_' = IF params.theta_init # <<>> THEN params.theta_init
                 ELSE IF params.random_state # None
                      THEN randn(params.random_state)
                      ELSE theta0
    /\ _cbks' = _init_callbacks(params)
    /\ events' = Append(events, Event("on_train_begin", RunRecord,
                                      notify(_init_callbacks(params), {})))
    /\ pc' = "while" /\ fit_result' = "running"
    /\ UNCHANGED <<heap, params, dataset, attrs, intercept_, coef_, n_iter_,
                   es, it_i, last_log, fits, y_pred>>

\* One pass of the while loop: _begin_epoch, the for loop, _end_epoch.
repro_epoch ==
    /\ pc = "while"
    /\ loop_guard
    /\ _epoch' = _epoch + 1
    /\ \E p1, p2 \in Perms(Len(X_train_)) :
        LET s == _begin_epoch_shuffle(X_train_, y_train_, params.random_state,
                                      p1, p2)
            batches == batch_iterator(s[1], s[2], params.batch_size)
        IN  /\ X_train_' = s[1]
            /\ y_train_' = s[2]
            /\ _batch' = _batch + Len(batches)
            /\ theta_' = fit_batches(batches, theta_, _learning_rate)
    /\ events' = Append(events, Event("on_epoch_end", RunRecord,
                                      notify(_cbks, {})))
    /\ UNCHANGED <<heap, params, dataset, attrs, converged_, is_fitted_,
                   _learning_rate, intercept_, coef_, n_iter_, _cbks, es, pc,
                   it_i, last_log, fit_result, fits, y_pred>>

\* _end_training, and fit returns; the next call is run fits + 1.
repro_end_training ==
    /\ pc = "while"
    /\ ~loop_guard
    /\ intercept_' = theta_[1]
    /\ coef_' = Tail(theta_)
    /\ n_iter_' = _epoch
    /\ is_fitted_' = TRUE
    /\ pc' = "idle" /\ fit_result' = "ok"
    /\ fits' = fits + 1
    /\ UNCHANGED <<heap, params, dataset, attrs, _epoch, _batch, converged_,
                   _learning_rate, X_train_, y_train_, theta_, _cbks, es,
                   it_i, events, last_log, y_pred>>

ReproNext ==
    \/ \E theta0 \in [1..n_columns -> ThetaVals] : repro_begin_training(theta0)
    \/ repro_epoch
    \/ repro_end_training

ReproSpec == ReproInit /\ [][ReproNext]_vars

(* --------------- utils/observers.py: Performance on given logs --------- *)
\* The metrics validate_metric accepts.
PerformanceMetrics ==
    {"cost", "score", "train_cost", "val_cost", "train_score", "val_score",
     "theta", "gradient"}

\* What a metric measures: a cost, a score, or a magnitude.
Family(metric) ==
    IF metric \in {"cost", "train_cost", "val_cost"} THEN "cost"
    ELSE IF metric \in {"score", "train_score", "val_score"} THEN "score"
    ELSE metric

TrainKey(family) == IF family = "cost" THEN "train_cost" ELSE "train_score"

ValKey(family) == IF family = "cost" THEN "val_cost" ELSE "val_score"

\* np.linalg.norm of a vector of one component.
norm(x) == Abs(x[1])

\* Performance.initialize: the observer at the beginning of training.
Performance_initialize(p) ==
    [best_performance_ |-> None, improved |-> FALSE, best_weights_ |-> None,
     _iter_no_improvement |-> 0,
     _better |-> IF p.metric \in {"score", "train_score", "val_score"}
                 THEN p.scorer ELSE "less",
     _stabilized |-> FALSE,
     _directional_metric |-> p.metric \in {"score", "cost"},
     _metric |-> p.metric]

\* Performance._get_current_value raises: the norm of a missing value.
Performance_get_current_value_raises(o, logs) ==
    o._metric \in {"gradient", "theta"} /\ o._metric \notin DOMAIN logs

\* Performance._get_current_value: logs.get(self._metric), the norm of it
\* for the magnitude metrics.
Performance_get_current_value(o, logs) ==
    IF o._metric \in {"gradient", "theta"} THEN norm(logs[o._metric])
    ELSE LogGet(logs, o._metric)

\* Performance._resolve_metric.
Performance_resolve_metric(o, logs) ==
    IF o._metric \in {"cost", "score"}
    THEN [o EXCEPT !._metric = IF "val" \in DOMAIN logs
                                THEN ValKey(Family(o._metric))
                                ELSE TrainKey(Family(o._metric))]
    ELSE o

\* Performance._process_improvement.
Performance_process_improvement(o, current, logs) ==
    [o EXCEPT !._iter_no_improvement = 0,
              !.best_performance_ = current,
              !.best_weights_ = LogGet(logs, "theta"),
              !._stabilized = FALSE]

\* Performance._process_no_improvement.
Performance_process_no_improvement(o, patience) ==
    [o EXCEPT !._iter_no_improvement = o._iter_no_improvement + 1,
              !._stabilized = IF o._iter_no_improvement + 1 = patience
                              THEN TRUE ELSE o._stabilized]

\* Performance._evaluate_non_directional_change: the relative change from
\* best_performance_ is greater than epsilon.
Performance_evaluate_non_directional_change(o, epsilon, current) ==
    Abs(current - o.best_performance_) * epsilon[2]
        > epsilon[1] * Abs(o.best_performance_)

\* Performance._evaluate_directional_change.
Performance_evaluate_directional_change(o, epsilon, current) ==
    IF (IF o._better = "greater" THEN current > o.best_performance_
        ELSE current < o.best_performance_)
    THEN Performance_evaluate_non_directional_change(o, epsilon, current)
    ELSE FALSE

\* Performance.evaluate raises TypeError: the norm of a missing value, or a
\* missing value (None) compared with best_performance_.
Performance_evaluate_raises(o, logs) ==
    \/ Performance_get_current_value_raises(o, logs)
    \/ /\ o.best_performance_ # None
       /\ o._metric \notin DOMAIN logs

\* Performance.evaluate when it returns.
Performance_evaluate(o, p, logs) ==
    LET current == Performance_get_current_value(o, logs)
    IN  IF o.best_performance_ = None
        THEN Performance_process_improvement(
                Performance_resolve_metric(o, logs), current, logs)
        ELSE IF o._directional_metric
        THEN (IF Performance_evaluate_directional_change(o, p.epsilon, current)
              THEN Performance_process_improvement(o, current, logs)
              ELSE Performance_process_no_improvement(o, p.patience))
        ELSE (IF Performance_evaluate_non_directional_change(o, p.epsilon, current)
              THEN Performance_process_improvement(o, current, logs)
              ELSE Performance_process_no_improvement(o, p.patience))

\* The epoch logs handed to evaluate for a metric: the training and the
\* validation result of its family, each present or not, or the vector of a
\* magnitude metric.  The values are positive.
PerformanceLogs(metric) ==
    IF Family(metric) \in {"theta", "gradient"}
    THEN {EmptyLog} \cup {[k \in {metric} |-> <<t>>] : t \in 1..MaxCost}
    ELSE UNION {[K -> 1..MaxCost] :
                    K \in SUBSET {TrainKey(Family(metric)), ValKey(Family(metric))}}

PerformanceParams ==
    {p \in [metric : PerformanceMetrics,
            scorer : {"greater", "less"},
            epsilon : {<<1, 4>>},
            patience : 1..MaxPatience,
            epochs : {MaxEpochs}] :
        Family(p.metric) # "score" => p.scorer = "greater"}

PerformanceInit ==
    /\ params \in PerformanceParams
    /\ dataset = 1
    /\ attrs = {}
    /\ _epoch = 0 /\ _batch = 0
    /\ converged_ = FALSE /\ is_fitted_ = FALSE
    /\ _learning_rate = 0
    /\ X_train_ = <<>> /\ y_train_ = <<>>
    /\ theta_ = <<>> /\ intercept_ = None /\ coef_ = <<>>
    /\ n_iter_ = None
    /\ _cbks = <<>>
    /\ es = Performance_initialize(params)
    /\ pc = "idle"
    /\ it_i = 0
    /\ events = <<>>
    /\ last_log = EmptyLog
    /\ fit_result = "none"
    /\ fits = 0
    /\ y_pred = NoCall
    /\ heap = <<>>

\* The start of a run: initialize.
performance_initialize ==
    /\ pc = "idle"
    /\ fits = 0
    /\ fits' = 1
    /\ _epoch' = 0
    /\ converged_' = FALSE
    /\ es' = Performance_initialize(params)
    /\ last_log' = EmptyLog
    /\ pc' = "while" /\ fit_result' = "running"
    /\ UNCHANGED <<heap, params, dataset, attrs, _batch, is_fitted_,
                   _learning_rate, X_train_, y_train_, theta_, intercept_,
                   coef_, n_iter_, _cbks, it_i, events, y_pred>>

\* evaluate(epoch, logs) at the end of an epoch; what it returns becomes
\* the caller's converged_.
performance_evaluate(logs) ==
    /\ pc = "while"
    /\ loop_guard
    /\ _epoch' = _epoch + 1
    /\ last_log' = logs
    /\ IF Performance_evaluate_raises(es, logs)
       THEN /\ pc' = "idle" /\ fit_result' = "TypeError"
            /\ UNCHANGED <<es, converged_>>
       ELSE /\ es' = Performance_evaluate(es, params, logs)
            /\ converged_' = Performance_evaluate(es, params, logs)._stabilized
            /\ UNCHANGED <<pc, fit_result>>
    /\ UNCHANGED <<heap, params, dataset, attrs, _batch, is_fitted_,
                   _learning_rate, X_train_, y_train_, theta_, intercept_,
                   coef_, n_iter_, _cbks, it_i, events, fits, y_pred>>

\* The end of a run.
performance_end ==
    /\ pc = "while"
    /\ ~loop_guard
    /\ n_iter_' = _epoch
    /\ pc' = "idle" /\ fit_result' = "ok"
    /\ UNCHANGED <<heap, params, dataset, attrs, _epoch, _batch, converged_,
                   is_fitted_, _learning_rate, X_train_, y_train_, theta_,
                   intercept_, coef_, _cbks, es, it_i, events, last_log, fits,
                   y_pred>>

PerformanceNext ==
    \/ performance_initialize
    \/ \E logs \in PerformanceLogs(params.metric) : performance_evaluate(logs)
    \/ performance_end

PerformanceSpec == PerformanceInit /\ [][PerformanceNext]_vars

(* ------------------------------ properties ----------------------------- *)
EventNames(evs) == [i \in 1..Len(evs) |-> evs[i].ev]

RECURSIVE Count(_, _)
Count(evs, name) ==
    IF evs = <<>> THEN 0
    ELSE (IF Head(evs).ev = name THEN 1 ELSE 0) + Count(Tail(evs), name)

\* Epochs begun in the current fit.
EpochsRun == Count(events, "on_epoch_begin")

Last(s) == s[Len(s)]

\* C1: the epoch counter never exceeds the configured epochs; when fit
\* returns, n_iter_ is the number of epochs that fit ran; and a fit during
\* which converged_ was never set ran exactly `epochs` epochs.
C1_EpochsBounded ==
    /\ _epoch <= params.epochs
    /\ EpochsRun <= params.epochs
    /\ fit_result = "ok" =>
            /\ n_iter_ = EpochsRun
            /\ (~converged_ => EpochsRun = params.epochs)

C1_Witness ==
    /\ fit_result = "ok"
    /\ ~converged_
    /\ params.early_stop
    /\ params.epochs >= 2
    /\ n_iter_ = params.epochs

\* First position of TRUE in a sequence of flags, 0 when there is none.
RECURSIVE FirstTrue(_)
FirstTrue(flags) ==
    IF flags = <<>> THEN 0
    ELSE IF Head(flags) THEN 1
    ELSE IF FirstTrue(Tail(flags)) = 0 THEN 0
    ELSE 1 + FirstTrue(Tail(flags))

EarlyStopRegistered == "early_stop" \in Range(_cbks)

\* C2: with the performance monitor registered as early-stop observer, once
\* its stabilized flag is true at the end of epoch k the loop begins no
\* further epoch: the next step of fit is _end_training with n_iter_ = k, and
\* a returned fit whose monitor stabilized ended at the first such epoch.
C2_StabilizedStopsTraining ==
    /\ [][(pc = "while" /\ EarlyStopRegistered /\ es.stabilized)
            => /\ pc' = "idle"
               /\ fit_result' = "ok"
               /\ n_iter_' = _epoch
               /\ EpochsRun = _epoch
               /\ Count(events', "on_epoch_begin") = EpochsRun]_vars
    /\ [](fit_result = "ok" /\ EarlyStopRegistered
            /\ FirstTrue(es.stability_log) > 0
                => /\ n_iter_ = es.epoch_log[FirstTrue(es.stability_log)]
                   /\ n_iter_ = FirstTrue(es.stability_log)
                   /\ Len(es.stability_log) = n_iter_)

C2_Witness ==
    /\ fit_result = "ok"
    /\ EarlyStopRegistered
    /\ es.stabilized
    /\ n_iter_ < params.epochs

\* The lifecycle automaton: the state after reading a sequence of event
\* names from state q.
Step(q, ev) ==
    CASE q = "start" /\ ev = "on_train_begin" -> "between_epochs"
      [] q = "between_epochs" /\ ev = "on_epoch_begin" -> "epoch_begun"
      [] q = "between_epochs" /\ ev = "on_train_end" -> "ended"
      [] q \in {"epoch_begun", "batch_ended"} /\ ev = "on_batch_begin"
            -> "batch_begun"
      [] q = "batch_begun" /\ ev = "on_batch_end" -> "batch_ended"
      [] q = "batch_ended" /\ ev = "on_epoch_end" -> "between_epochs"
      [] OTHER -> "bad"

RECURSIVE Run(_, _)
Run(q, names) == IF names = <<>> THEN q ELSE Run(Step(q, Head(names)), Tail(names))

Lifecycle == Run("start", EventNames(events))

\* C3: within one fit the events come as on_train_begin once and first, then
\* per epoch on_epoch_begin, one or more (on_batch_begin, on_batch_end) pairs
\* and on_epoch_end, and on_train_end once and last: the events so far are
\* always a prefix of such a sequence, training is in progress exactly
\* between on_train_begin and on_train_end, and a returned fit has the whole
\* sequence.
C3_LifecycleOrder ==
    /\ Lifecycle # "bad"
    /\ (pc = "while" => Lifecycle = "between_epochs")
    /\ (pc = "for" => Lifecycle \in {"epoch_begun", "batch_ended"})
    /\ (fit_result = "ok" => Lifecycle = "ended")
    /\ (Lifecycle = "ended" => fit_result = "ok")

C3_Witness ==
    /\ fit_result = "ok"
    /\ EpochsRun >= 2
    /\ Count(events, "on_batch_end") >= 2 * EpochsRun + 1

IsPrefix(a, b) == Len(a) <= Len(b) /\ a = SubSeq(b, 1, Len(a))

\* The observers fit registers, in order.
Registered ==
    IF params.early_stop /\ params.gradient_check
    THEN <<"blackbox", "progress", "early_stop", "gradient_check">>
    ELSE IF params.early_stop THEN <<"blackbox", "progress", "early_stop">>
    ELSE IF params.gradient_check THEN <<"blackbox", "progress", "gradient_check">>
    ELSE <<"blackbox", "progress">>

\* C4: every notification call that returns has reached every registered
\* observer exactly once, in registration order (history recorder, progress
\* reporter, early-stop observer and gradient checker when configured); the
\* only call that may reach fewer is the one an observer raised from, which
\* reached the observers up to that one, in order.
C4_NotifiedInOrder ==
    events # <<>> =>
        /\ _cbks = Registered
        /\ \A i \in 1..Len(events) :
                \/ events[i].to = _cbks
                \/ /\ i = Len(events)
                   /\ fit_result \in {"KeyError", "TypeError"}
                   /\ IsPrefix(events[i].to, _cbks)
                   /\ Last(events[i].to) = "early_stop"

C4_Witness ==
    /\ fit_result = "ok"
    /\ Len(_cbks) = 4
    /\ \A name \in {"on_train_begin", "on_epoch_begin", "on_batch_begin",
                     "on_batch_end", "on_epoch_end", "on_train_end"} :
            Count(events, name) >= 1


\* C5: after every reshuffle row i of X_train_ and element i of y_train_
\* come from the same original sample.
C5_SamplesStayPaired ==
    \A i \in 1..Len(X_train_) : X_train_[i] = y_train_[i]

\* Batch updates since the last on_epoch_begin.
RECURSIVE BatchesInEpoch(_)
BatchesInEpoch(evs) ==
    IF evs = <<>> \/ Last(evs).ev = "on_epoch_begin" THEN 0
    ELSE (IF Last(evs).ev = "on_batch_end" THEN 1 ELSE 0)
            + BatchesInEpoch(SubSeq(evs, 1, Len(evs) - 1))

BatchesExpected(n, batch_size) ==
    IF batch_size = None THEN 1
    ELSE IF batch_size = 1 THEN n
    ELSE (n + batch_size - 1) \div batch_size

\* C6: every epoch makes 1 batch update when batch_size is None (and that
\* batch holds all training samples), n updates when batch_size = 1, and
\* ceil(n / batch_size) updates in general, n being the number of training
\* samples.
C6_BatchesPerEpoch ==
    /\ (events # <<>> /\ Last(events).ev = "on_epoch_end"
            => BatchesInEpoch(events)
                = BatchesExpected(Len(X_train_), params.batch_size))
    /\ (pc = "for"
            => BatchesInEpoch(events)
                <= BatchesExpected(Len(X_train_), params.batch_size))
    /\ (events # <<>> /\ Last(events).ev = "on_batch_end"
            /\ params.batch_size = None
            => last_log.batch_size = Len(X_train_))

C6_Witness ==
    /\ events # <<>>
    /\ Last(events).ev = "on_epoch_end"
    /\ Len(X_train_) = 3
    /\ params.batch_size = 2
    /\ BatchesInEpoch(events) = 2

\* C7: predict or score on an estimator for which no fit has completed
\* fails with the not-fitted error.
C7_NotFittedError ==
    (y_pred.call # "none" /\ "n_iter_" \notin attrs)
        => y_pred.status = "NotFittedError"

\* C8: after a successful fit a predict or score call changes nothing of
\* the estimator or of its observers, returns a prediction, and returns the
\* same prediction as the previous call when given the same X.
C8_PredictNoSideEffects ==
    [][(pc = "idle" /\ fits' = fits /\ is_fitted_)
        => /\ UNCHANGED <<theta_, intercept_, coef_, n_iter_, _epoch, _batch,
                          converged_, is_fitted_, _learning_rate, X_train_,
                          y_train_, attrs, _cbks, es, events, last_log>>
           /\ y_pred'.status = "ok"
           /\ (y_pred.status = "ok" /\ y_pred'.X = y_pred.X
                    => y_pred'.value = y_pred.value)]_vars

C8_Witness ==
    /\ is_fitted_
    /\ y_pred.call = "score"
    /\ y_pred.status = "ok"

\* C9: is_fitted_ is false from the start of fit throughout training and
\* after a fit that raised; it turns true only in the step that ends a fit
\* which ran to completion, where on_train_end has reached every observer
\* and intercept_ and coef_ are the first and the remaining entries of the
\* final theta_.
C9_FittedOnlyAtEnd ==
    /\ [](pc # "idle" => ~is_fitted_)
    /\ [](is_fitted_ =>
            /\ fit_result = "ok"
            /\ Last(events).ev = "on_train_end"
            /\ Last(events).to = _cbks
            /\ intercept_ = theta_[1]
            /\ coef_ = Tail(theta_))
    /\ [][(~is_fitted_ /\ is_fitted_')
            => pc = "while" /\ pc' = "idle" /\ ~loop_guard]_vars

C9_Witness ==
    /\ is_fitted_
    /\ fits = 2
    /\ n_iter_ >= 2

NoDuplicates(seq) == Cardinality(Range(seq)) = Len(seq)

\* C10: a fit on an already fitted estimator starts from scratch: the epoch
\* and batch counters are 0, converged_ is false, the learning rate is
\* learning_rate_0 and the observer list holds each configured observer
\* once; when it returns, n_iter_ is the number of epochs of this run alone.
C10_RefitReinitializes ==
    /\ [][(fits >= 1 /\ fits' = fits + 1)
            => /\ _epoch' = 0
               /\ _batch' = 0
               /\ ~converged_'
               /\ _learning_rate' = params.learning_rate_0
               /\ (pc' = "while"
                    => /\ NoDuplicates(_cbks')
                       /\ _cbks' = Registered
                       /\ ~es'.stabilized)]_vars
    /\ [](fits >= 2 /\ fit_result = "ok"
            => /\ n_iter_ = EpochsRun
               /\ _batch = Count(events, "on_batch_end"))

C10_Witness ==
    /\ fits = 2
    /\ fit_result = "ok"
    /\ Len(_cbks) = 3
    /\ n_iter_ = 2
    /\ es.critical_points # <<>>
\* A step in which on_epoch_end processed an epoch and returned.
EpochProcessed == Len(es'.epoch_log) = Len(es.epoch_log) + 1

\* C11: once on_train_begin has run, stabilized is true exactly when the
\* counter of epochs without improvement has reached patience, the same
\* holds of the values logged at every epoch, and stabilized is false
\* after every epoch flagged as an improvement.
C11_StabilizedIffPatience ==
    fits >= 1 =>
        /\ es.stabilized <=> es.iter_no_improvement >= params.patience
        /\ \A i \in 1..Len(es.epoch_log) :
                /\ es.stability_log[i]
                        <=> es.iter_no_improvement_log[i] >= params.patience
                /\ es.improvement_log[i] => ~es.stability_log[i]
        /\ es.significant_improvement => ~es.stabilized

\* An improvement right after the epoch at which the observer stabilized.
C11_Witness ==
    /\ Len(es.epoch_log) >= 3
    /\ es.stability_log[Len(es.epoch_log) - 1]
    /\ es.improvement_log[Len(es.epoch_log)]
    /\ ~es.stabilized

\* C12: every epoch-end that the observer processes sets the counter to 0
\* when the epoch is flagged an improvement and to its previous value plus
\* 1 otherwise, and appends the flag and the new counter to their logs.
C12_CounterResetsOnImprovement ==
    [][EpochProcessed =>
        /\ es'.iter_no_improvement =
                IF es'.significant_improvement THEN 0
                ELSE es.iter_no_improvement + 1
        /\ (es'.iter_no_improvement = 0 <=> es'.significant_improvement)
        /\ Last(es'.improvement_log) = es'.significant_improvement
        /\ Last(es'.iter_no_improvement_log) = es'.iter_no_improvement]_vars

\* An improvement after two epochs without one.
C12_Witness ==
    /\ Len(es.epoch_log) >= 4
    /\ es.iter_no_improvement_log[Len(es.epoch_log) - 1] = 2
    /\ Last(es.iter_no_improvement_log) = 0
    /\ Last(es.improvement_log)
\* Value a is better than value b for the configured metric: greater when
\* a score metric's scorer says so, lower otherwise.
Better(a, b) ==
    IF params.metric \in ScoreMetrics /\ params.scorer = "greater"
    THEN a > b ELSE a < b

\* |a - b| / |b| > epsilon.
RelativeChangeAbove(a, b) ==
    Abs(a - b) * params.epsilon[2] > params.epsilon[1] * Abs(b)

\* Every value of the sequence is better than the one before it by a
\* relative change greater than epsilon.
StrictlyImproving(values) ==
    \A i \in 2..Len(values) :
        /\ Better(values[i], values[i - 1])
        /\ RelativeChangeAbove(values[i], values[i - 1])

\* C13: while the cost or score sequence handed to the observer improves at
\* every epoch by a relative change greater than epsilon, stabilized is
\* false after every epoch, for every patience.
C13_ImprovingNeverStabilizes ==
    (fits >= 1 /\ params.metric \in {"train_cost", "train_score"}
        /\ StrictlyImproving(es.performance_log))
    => /\ ~es.stabilized
       /\ \A i \in 1..Len(es.stability_log) : ~es.stability_log[i]

C13_Witness ==
    /\ params.metric = "train_cost"
    /\ params.patience = 1
    /\ Len(es.performance_log) >= 3
    /\ StrictlyImproving(es.performance_log)

\* C14: when the values stay equal to the baseline set at epoch e, the
\* stabilized flag logged k epochs later is true exactly when k has reached
\* patience: it turns true at the patience-th epoch without improvement
\* and at no earlier one.
C14_ConstantStabilizesAtPatience ==
    fits >= 1 =>
        \A e \in 1..Len(es.epoch_log) : \A j \in e..Len(es.epoch_log) :
            (/\ es.improvement_log[e]
             /\ \A i \in e..j : es.performance_log[i] = es.performance_log[e])
            => (es.stability_log[j] <=> j - e >= params.patience)

C14_Witness ==
    /\ params.patience = 2
    /\ es.improvement_log = <<TRUE, TRUE, FALSE, FALSE>>
    /\ es.performance_log[3] = es.performance_log[2]
    /\ es.performance_log[4] = es.performance_log[2]
    /\ es.stability_log = <<FALSE, FALSE, FALSE, TRUE>>
\* The values improve at every epoch through epoch K and stay at the value
\* of epoch K afterwards.
PlateauAfter(values, K) ==
    /\ StrictlyImproving(SubSeq(values, 1, K))
    /\ \A i \in K..Len(values) : values[i] = values[K]

\* C15: with the monitor on train_cost as early-stop observer, a run whose
\* cost improves significantly at every epoch through epoch K and stays
\* there for patience more epochs ends at epoch K + patience: n_iter_ is
\* K + patience and critical_points holds epoch K.
C15_HaltsPatienceAfterPlateau ==
    (fit_result = "ok" /\ fits >= 1 /\ params.early_stop
        /\ params.metric = "train_cost")
    => \A K \in 1..Len(es.performance_log) :
            (/\ PlateauAfter(es.performance_log, K)
             /\ Len(es.performance_log) >= K + params.patience)
            => /\ n_iter_ = K + params.patience
               /\ Len(es.performance_log) = n_iter_
               /\ es.critical_points = <<K>>

\* A cost that improves at epoch 2 and stays: with patience 1 the run ends
\* at epoch 3, before its `epochs`.
C15_Witness ==
    /\ fit_result = "ok"
    /\ params.early_stop
    /\ params.metric = "train_cost"
    /\ params.patience = 1
    /\ PlateauAfter(es.performance_log, 2)
    /\ n_iter_ = 3
    /\ n_iter_ < params.epochs
    /\ es.critical_points = <<2>>

\* C16: at every epoch after the first, for a cost or a score metric, the
\* epoch is flagged a significant improvement exactly when the value is
\* better than the baseline (lower for a cost, better by the scorer for a
\* score) and |value - baseline| / |baseline| is greater than epsilon; the
\* baseline is the value of the last improvement, not of the last epoch.
C16_SignificantImprovement ==
    [][(EpochProcessed /\ es.baseline # None
            /\ params.metric \in {"train_cost", "train_score"})
        => /\ es'.significant_improvement
                <=> /\ Better(Last(es'.performance_log), es.baseline)
                    /\ RelativeChangeAbove(Last(es'.performance_log),
                                           es.baseline)
           /\ es.baseline = es.performance_log[es.best_epoch]]_vars

\* Costs 2, 3, 2: epoch 3 is better than epoch 2 by more than epsilon and
\* no better than the baseline, so it is not flagged.
C16_Witness ==
    /\ params.metric = "train_cost"
    /\ params.epsilon = <<1, 4>>
    /\ es.performance_log = <<2, 3, 2>>
    /\ es.improvement_log = <<TRUE, FALSE, FALSE>>
    /\ es.baseline = 2
C18_MagnitudeIgnoresDirection ==
    [][(EpochProcessed /\ es.baseline # None
            /\ params.metric \in {"theta", "gradient"}
            /\ RelativeChangeAbove(Last(es'.performance_log), es.baseline))
        => es'.significant_improvement]_vars

\* C19: on_epoch_end raises the missing-metric error exactly when the
\* metric's key is absent from the epoch log it is given.
C19_KeyErrorIffAbsent ==
    (fits >= 1 /\ "epoch" \in DOMAIN last_log)
        => (fit_result = "KeyError" <=> params.metric \notin DOMAIN last_log)
\* C20: when the early-stop observer's metric is a score and the model has
\* no scorer, a fit that reaches on_train_begin fails there with TypeError:
\* on_train_begin is the only notification of that fit, it stops at the
\* observer that raised, no epoch and no batch has begun, and theta_ is as
\* _init_weights left it.
C20_MissingScorerFailsFast ==
    (/\ fits >= 1
     /\ params.early_stop
     /\ params.metric \in ScoreMetrics
     /\ params.scorer = "none"
     /\ fit_result \notin {"ValueError", "AssertionError"})
    => /\ fit_result = "TypeError"
       /\ pc = "idle"
       /\ EventNames(events) = <<"on_train_begin">>
       /\ events[1].to = <<"blackbox", "progress", "early_stop">>
       /\ _epoch = 0
       /\ _batch = 0
       /\ ~is_fitted_
       /\ es.epoch_log = <<>>
       /\ (params.theta_init # <<>> => theta_ = params.theta_init)
       /\ (params.theta_init = <<>> /\ params.random_state # None
                => theta_ = randn(params.random_state))

C20_Witness ==
    /\ fit_result = "TypeError"
    /\ params.epochs = MaxEpochs
    /\ params.batch_size = 1
    /\ fits = 2

\* C21: a fit on a fitted estimator that aborts before its first epoch with
\* a validation or configuration error leaves theta_, intercept_, coef_ and
\* is_fitted_ as the previous fit set them.
C21_NoPartialCommit ==
    [][(is_fitted_ /\ fits' = fits + 1
            /\ fit_result' \in {"ValueError", "AssertionError", "TypeError"})
        => UNCHANGED <<theta_, intercept_, coef_, is_fitted_>>]_vars

\* The shape the claim gives the weights of a fit on the data set.
ExpectedThetaShape ==
    LET n_features == shape(dataset.X)[2]
        n_classes == Cardinality(unique(dataset.y))
    IN  IF params.estimator = "classifier" /\ n_classes # 2
        THEN <<n_features + 1, n_classes>>
        ELSE <<n_features + 1>>

\* C22: when on_train_begin fires, theta_ has shape (n_features+1,) for
\* regression and binary classification and (n_features+1, n_classes) for
\* multiclass classification, drawn or taken from theta_init; a theta_init
\* of any other shape fails the fit before an observer is notified.
C22_ThetaShapeAtTrainBegin ==
    fits = 1 =>
        /\ Count(events, "on_train_begin") > 0
                => shape(theta_) = ExpectedThetaShape
        /\ (params.theta_init # <<>>
                    /\ shape(params.theta_init) # ExpectedThetaShape)
                => fit_result = "AssertionError" /\ events = <<>>
        /\ (params.theta_init = <<>>
                    \/ shape(params.theta_init) = ExpectedThetaShape)
                => Count(events, "on_train_begin") = 1

C22_Witness ==
    /\ fits = 1
    /\ params.estimator = "classifier"
    /\ Cardinality(unique(dataset.y)) = 3
    /\ params.theta_init = <<>>
    /\ Count(events, "on_train_begin") = 1
    /\ shape(theta_) = <<MaxFeatures + 1, 3>>

\* C23: the log handed to on_epoch_end holds epoch (the current epoch
\* counter), learning_rate, theta, train_cost and train_score, and holds
\* val_cost and val_score exactly when an early-stop observer with a
\* non-zero validation size is configured.
C23_EpochLogKeys ==
    (events # <<>> /\ Last(events).ev = "on_epoch_end") =>
        /\ {"epoch", "learning_rate", "theta", "train_cost", "train_score"}
                \subseteq DOMAIN last_log
        /\ last_log.epoch = _epoch
        /\ last_log.epoch = Last(events).arg
        /\ last_log.learning_rate = _learning_rate
        /\ last_log.theta = theta_
        /\ \A k \in {"val_cost", "val_score"} :
                k \in DOMAIN last_log
                    <=> (params.early_stop /\ params.val_size[1] # 0)

C23_Witness ==
    /\ events # <<>>
    /\ Last(events).ev = "on_epoch_end"
    /\ _epoch = 2
    /\ params.val_size = <<1, 2>>
    /\ Len(X_val_) = 1
    /\ {"val_cost", "val_score"} \subseteq DOMAIN last_log

\* C24: the theta of a batch log or an epoch log is a copy of the
\* estimator's parameters: whatever updates follow, the theta of every log
\* an observer kept has the value it had when the log was built, and is
\* not the object theta_ is bound to.
C24_LoggedThetaIsACopy ==
    \A i \in 1..Len(events) :
        /\ heap[events[i].arg.theta] = events[i].arg.logged
        /\ events[i].arg.theta # theta_

C24_Witness ==
    /\ params.inplace
    /\ Len(events) >= 3
    /\ events[2].ev = "on_epoch_end"
    /\ events[3].ev = "on_batch_end"
    /\ heap[theta_] # events[2].arg.logged
    /\ heap[theta_] # events[3].arg.logged

\* The epochs at which the flags change from false to true.
Rises(flags) ==
    {i \in 1..Len(flags) : flags[i] /\ (i = 1 \/ ~flags[i - 1])}

\* C25: after on_train_end, critical_points holds one entry for each change
\* of stabilized from false to true, and none for an epoch at which
\* stabilized stayed true.
C25_OneEntryPerStabilization ==
    (fit_result = "ok" /\ fits >= 1)
        => Len(es.critical_points) = Cardinality(Rises(es.stability_log))

\* The last epoch up to position i that the observer flagged a significant
\* improvement.
LastImprovement(o, i) ==
    LET j == CHOOSE j \in 1..i :
                /\ o.improvement_log[j]
                /\ \A k \in (j + 1)..i : ~o.improvement_log[k]
    IN  o.epoch_log[j]

\* C26: after on_train_end, best_results is the epoch of the most recent
\* significant improvement of the run, the first epoch if none followed;
\* during a run the best epoch recorded at an epoch is not greater than
\* that epoch and not smaller than the one recorded at the epoch before.
C26_BestEpochIsLastImprovement ==
    fits >= 1 =>
        /\ \A i \in 1..Len(es.best_epochs_log) :
                /\ es.best_epochs_log[i] = LastImprovement(es, i)
                /\ es.best_epochs_log[i] <= es.epoch_log[i]
                /\ es.epoch_log[i] <= _epoch
                /\ i > 1 => es.best_epochs_log[i - 1] <= es.best_epochs_log[i]
        /\ es.best_epochs_log # <<>> => es.best_epoch = Last(es.best_epochs_log)
        /\ fit_result = "ok"
                => es.best_results = LastImprovement(es, Len(es.epoch_log))

C26_Witness ==
    /\ fit_result = "ok"
    /\ es.improvement_log = <<TRUE, FALSE, TRUE, FALSE>>
    /\ es.best_epochs_log = <<1, 1, 3, 3>>
    /\ es.best_results = 3

\* The metric value logged at the last epoch up to position i that the
\* observer flagged a significant improvement.
ValueAtLastImprovement(o, i) ==
    LET j == CHOOSE j \in 1..i :
                /\ o.improvement_log[j]
                /\ \A k \in (j + 1)..i : ~o.improvement_log[k]
    IN  o.performance_log[j]

\* The best of the first i metric values: the lowest cost, the best score
\* by the scorer.
BestObserved(o, i) ==
    CHOOSE v \in {o.performance_log[j] : j \in 1..i} :
        \A j \in 1..i : ~Better(o.performance_log[j], v)

\* C27 as stated: after every epoch-end the baseline of a cost or score
\* metric is the best value observed so far in the run.
C27_BaselineIsBestObserved ==
    (fits >= 1 /\ params.metric \in {"train_cost", "train_score"}) =>
        \A i \in 1..Len(es.baseline_log) :
            es.baseline_log[i] = BestObserved(es, i)

\* C27, amended: after every epoch-end the baseline is the metric value of
\* the most recent epoch flagged a significant improvement (the first
\* epoch when none followed); a better value whose relative change from
\* the baseline is not above epsilon is not adopted.
C27_BaselineIsLastSignificantValue ==
    fits >= 1 =>
        /\ \A i \in 1..Len(es.baseline_log) :
                es.baseline_log[i] = ValueAtLastImprovement(es, i)
        /\ es.baseline_log # <<>> => es.baseline = Last(es.baseline_log)

\* A cost of 2 after a baseline of 3 with epsilon 1/3: better, not adopted.
C27_Witness ==
    /\ params.metric = "train_cost"
    /\ params.epsilon = <<1, 3>>
    /\ es.performance_log = <<3, 2, 1>>
    /\ es.baseline_log = <<3, 3, 1>>

\* C28: two runs of fit with the same X, y, hyperparameters and the same
\* integer random_state are identical: the same initial theta_, the same
\* order of the training data after the shuffle of every epoch, and the
\* same parameters after every epoch.
C28_SeededRunsIdentical ==
    params.random_state # None =>
        \A i, j \in 1..Len(events) :
            (events[i].ev = events[j].ev
                /\ events[i].arg.epoch = events[j].arg.epoch)
            => /\ events[i].arg.X = events[j].arg.X
               /\ events[i].arg.y = events[j].arg.y
               /\ events[i].arg.theta = events[j].arg.theta

\* The eight diagnostic logs of the performance observer.
DiagnosticLogs(o) ==
    <<o.epoch_log, o.performance_log, o.baseline_log, o.relative_change_log,
      o.improvement_log, o.iter_no_improvement_log, o.stability_log,
      o.best_epochs_log>>

\* C29: whatever an earlier run left in the observer, once on_train_begin
\* has returned its baseline is null, its counter 0, stabilized false and
\* its eight diagnostic logs empty.
C29_ReusedObserverStartsClean ==
    [][(fits' = fits + 1 /\ fit_result' = "running"
            /\ "early_stop" \in Range(_cbks'))
        => /\ es'.baseline = None
           /\ es'.iter_no_improvement = 0
           /\ ~es'.stabilized
           /\ \A i \in 1..8 : DiagnosticLogs(es')[i] = <<>>]_vars

\* The second run has begun on an observer that stabilized in the first.
C29_Witness ==
    /\ fits = 2
    /\ fit_result = "running"
    /\ _epoch = 0
    /\ "early_stop" \in Range(_cbks)
    /\ es.critical_points # <<>>
    /\ es.best_results # None
    /\ es.epoch_log = <<>>

\* This step notified the observers of an event from whose handler the
\* early-stop observer raises: on_train_begin without the scorer its score
\* metric needs, or on_epoch_end with a log from which it cannot read its
\* metric.
ObserverRaised ==
    /\ events' # events
    /\ events' # <<>>
    /\ "early_stop" \in Range(_cbks')
    /\ \/ /\ Last(events').ev = "on_train_begin"
          /\ on_train_begin_raises(params)
       \/ /\ Last(events').ev = "on_epoch_end"
          /\ _get_current_value_raises(params.metric, last_log')

\* C30: an error raised by an observer's handler during fit reaches the
\* caller of fit: the observers registered after the one that raised are
\* not notified of the event, no later notification is made (on_train_end
\* included), and is_fitted_ is not set.
C30_ObserverErrorPropagates ==
    /\ [][ObserverRaised =>
            /\ fit_result' \in {"TypeError", "KeyError"}
            /\ pc' = "idle"
            /\ IsPrefix(Last(events').to, _cbks')
            /\ Last(Last(events').to) = "early_stop"]_vars
    /\ [](fit_result \in {"TypeError", "KeyError"} =>
            /\ pc = "idle"
            /\ ~is_fitted_
            /\ Last(Last(events).to) = "early_stop"
            /\ Count(events, "on_train_end") = 0)

\* The early-stop observer raised at on_epoch_end with the gradient checker
\* registered after it.
C30_Witness ==
    /\ fit_result = "KeyError"
    /\ _cbks = <<"blackbox", "progress", "early_stop", "gradient_check">>
    /\ Last(events).ev = "on_epoch_end"
    /\ Last(events).to = <<"blackbox", "progress", "early_stop">>
    /\ ~is_fitted_

\* C31: every fit terminates: a fit that has begun its loop leaves it after
\* at most `epochs` epochs, and unless an observer raised, on_train_end is
\* then fired and fit returns.
C31_FitTerminates ==
    (fit_result = "running")
        ~> (/\ pc = "idle"
            /\ _epoch <= params.epochs
            /\ \/ fit_result = "KeyError"
               \/ /\ fit_result = "ok"
                  /\ Last(events).ev = "on_train_end"
                  /\ (_epoch = params.epochs \/ converged_))

\* A fit of the full number of epochs in batches of one sample has returned.
C31_Witness ==
    /\ fits = 1
    /\ fit_result = "ok"
    /\ params.epochs = MaxEpochs
    /\ params.batch_size = 1
    /\ dataset = 2
    /\ _batch = 2 * MaxEpochs
    /\ Last(events).ev = "on_train_end"

\* C32: the log handed to on_batch_end is built after the parameter update
\* of the batch: its theta is theta_ as it is when on_batch_end fires, its
\* batch_size the number of rows of the batch and its batch the batch
\* counter.
C32_BatchLogAfterUpdate ==
    (events # <<>> /\ Last(events).ev = "on_batch_end") =>
        /\ last_log.theta = theta_
        /\ last_log.batch = _batch
        /\ last_log.batch = Last(events).arg
        /\ last_log.batch_size =
                Len(batch_iterator(X_train_, y_train_, params.batch_size)[it_i][1])

\* The concatenation of component c of the batches.
RECURSIVE Concat(_, _)
Concat(batches, c) ==
    IF batches = <<>> THEN <<>>
    ELSE Head(batches)[c] \o Concat(Tail(batches), c)

\* C33: batch_iterator partitions its input in order: the batches of X and
\* of y concatenated give back X and y, the X and y parts of a batch cover
\* the same rows, every batch but the last has batch_size rows, the last
\* has between 1 and batch_size rows, and no batch is empty.
C33_BatchesPartitionInOrder ==
    X_train_ # <<>> =>
        LET batches == batch_iterator(X_train_, y_train_, params.batch_size)
            bs == IF params.batch_size = None THEN Len(X_train_)
                  ELSE params.batch_size
        IN  /\ Concat(batches, 1) = X_train_
            /\ Concat(batches, 2) = y_train_
            /\ \A k \in 1..Len(batches) :
                    /\ Len(batches[k][1]) = Len(batches[k][2])
                    /\ Len(batches[k][1]) >= 1
                    /\ Len(batches[k][1]) <= bs
                    /\ k < Len(batches) => Len(batches[k][1]) = bs

\* Three samples in batches of two: the last batch has one row, and fit
\* has taken both.
C33_Witness ==
    /\ pc = "for"
    /\ Len(X_train_) = 3
    /\ params.batch_size = 2
    /\ it_i = 2
    /\ Len(batch_iterator(X_train_, y_train_, params.batch_size)) = 2
    /\ Len(batch_iterator(X_train_, y_train_, params.batch_size)[2][1]) = 1

\* The batch indices handed to the observers with the events of one name.
BatchIndices(evs, name) ==
    LET sel == SelectSeq(evs, LAMBDA e : e.ev = name)
    IN  [k \in 1..Len(sel) |-> sel[k].arg]

\* C34: the batch counter runs over the whole fit: it is set to 0 at the
\* start of fit only and grows by 1 at every batch, so the indices handed
\* to on_batch_begin and on_batch_end are 1, 2, 3, ... across the epochs,
\* and after fit the counter is the number of parameter updates made.
C34_BatchCounterCumulative ==
    /\ [](fits >= 1 =>
            /\ BatchIndices(events, "on_batch_begin") = [k \in 1.._batch |-> k]
            /\ BatchIndices(events, "on_batch_end") = [k \in 1.._batch |-> k])
    /\ [][\/ _batch' = _batch
          \/ _batch' = _batch + 1 /\ theta_' # theta_ /\ UNCHANGED _epoch
          \/ _batch' = 0 /\ fits' = fits + 1]_vars

\* The first batch of the second epoch has index 3 when the first epoch
\* had two batches.
C34_Witness ==
    /\ _epoch = 2
    /\ Len(X_train_) = 2
    /\ params.batch_size = 1
    /\ Last(events).ev = "on_batch_end"
    /\ Last(events).arg = 3
    /\ _batch = 3

\* C35: the baseline of the performance observer is never 0: a metric value
\* of exactly 0 never becomes the baseline, so the relative change
\* |v - baseline| / |baseline| is never computed with a zero denominator.
C35_BaselineNeverZero ==
    fits >= 1 =>
        /\ es.baseline # 0
        /\ es.relative_change[2] # 0
        /\ \A i \in 1..Len(es.baseline_log) :
                /\ es.baseline_log[i] # 0
                /\ es.performance_log[i] # 0
                /\ es.relative_change_log[i][2] # 0

\* A value of 0 reached the observer after two epochs and was not taken.
C35_Witness ==
    /\ fit_result = "KeyError"
    /\ params.metric = "train_cost"
    /\ LogGet(last_log, params.metric) = 0
    /\ Len(es.baseline_log) = 2
    /\ es.baseline = 1


\* The value of the monitored metric in the log handed to the evaluate
\* call of a step, and whether it is worse than the baseline by more than
\* epsilon.
WorseByMoreThanEpsilon(o, p, current) ==
    /\ IF Family(p.metric) = "score" /\ p.scorer = "greater"
       THEN current < o.best_performance_
       ELSE current > o.best_performance_
    /\ Abs(current - o.best_performance_) * p.epsilon[2]
           > p.epsilon[1] * Abs(o.best_performance_)

\* C36: every cost and score metric of Performance is directional, the
\* prefixed train_cost, val_cost, train_score and val_score included: an
\* evaluate call whose value is worse than the baseline by more than epsilon
\* is not an improvement, it leaves the baseline and does not reset the
\* counter of iterations without improvement.
C36_CostAndScoreAreDirectional ==
    [][(/\ pc = "while" /\ _epoch' = _epoch + 1 /\ pc' = "while"
        /\ Family(params.metric) \in {"cost", "score"}
        /\ es.best_performance_ # None
        /\ es._metric \in DOMAIN last_log'
        /\ WorseByMoreThanEpsilon(es, params, last_log'[es._metric]))
       => /\ es'._iter_no_improvement = es._iter_no_improvement + 1
          /\ es'.best_performance_ = es.best_performance_]_vars


\* The metric Performance monitors is absent from a log: the key of a
\* prefixed or magnitude metric, both variants of an unprefixed one.
MetricAbsent(p, logs) ==
    IF p.metric \in {"cost", "score"}
    THEN DOMAIN logs \cap {TrainKey(Family(p.metric)),
                           ValKey(Family(p.metric))} = {}
    ELSE p.metric \notin DOMAIN logs

\* C37: an evaluate call whose log lacks the monitored metric fails with an
\* error; it does not return and carry on with a null value.
C37_AbsentMetricFails ==
    [][(/\ pc = "while" /\ _epoch' = _epoch + 1
        /\ MetricAbsent(params, last_log'))
       => fit_result' = "TypeError"]_vars


\* The values a log holds for the metric Performance monitors: of either
\* variant for an unprefixed metric, the norm for a magnitude metric.
MonitoredValues(p, logs) ==
    IF p.metric \in {"cost", "score"}
    THEN {logs[k] : k \in DOMAIN logs \cap {TrainKey(Family(p.metric)),
                                            ValKey(Family(p.metric))}}
    ELSE IF p.metric \in {"theta", "gradient"}
    THEN {norm(logs[k]) : k \in DOMAIN logs \cap {p.metric}}
    ELSE {logs[k] : k \in DOMAIN logs \cap {p.metric}}

\* C38: after the first evaluate call of a run, on a log that holds the
\* metric, best_performance_ is the first epoch's value of the metric and
\* not null, for every accepted metric, the unprefixed cost and score
\* included.
C38_FirstCallRecordsBaseline ==
    (pc = "while" /\ _epoch = 1 /\ MonitoredValues(params, last_log) # {})
        => /\ es.best_performance_ # None
           /\ es.best_performance_ \in MonitoredValues(params, last_log)


\* C39: with the unprefixed metric cost or score, the first evaluate call
\* resolves it to the validation variant when its log holds validation
\* results, and to the training variant only when it holds none.
C39_ResolvesToValidationWhenPresent ==
    (pc = "while" /\ _epoch = 1 /\ params.metric \in {"cost", "score"})
        => es._metric = IF ValKey(Family(params.metric)) \in DOMAIN last_log
                        THEN ValKey(Family(params.metric))
                        ELSE TrainKey(Family(params.metric))
====
